---- MODULE Spec2Model ----
(***************************************************************************)
(* The feature queue orchestrator of autonomous-orchestrator/agent.py:     *)
(* AutonomousAgent.run_implementation_phase, its helpers, and the external *)
(* requests pause(), resume() and stop().                                  *)
(*                                                                         *)
(* The loop is one coroutine.  Its position is pc.  stop() is installed as *)
(* a signal handler (autonomous_agent_demo.py), so it may run between any  *)
(* two steps of the loop, including between the load and the store of      *)
(* `self.state.iteration += 1`.  pause() and resume() are plain methods    *)
(* for the host; they run when the coroutine is suspended (the two sleeps  *)
(* and the collaborator call).                                             *)
(***************************************************************************)
EXTENDS Integers, Sequences, FiniteSets, TLC

\* ------------------------------------------------------------------ bounds
NumFeatures == 2        \* length of the feature list
MaxIterations == 2      \* largest configured max_iterations
SummaryFeatures == 6    \* length of the feature list of SummarySpec
MaxAssessments == 2     \* entries of the decisions ledger in AssessSpec
MaxClock == 3           \* readings of the clock in MarkSpec
MaxLogs == 6            \* log files in the logs directory in FailureSpec
MaxImpactCalls == 2     \* calls of assess_impact in ImpactSpec
MaxRevisionCalls == 1   \* calls of assess_impact in RevisionSpec
MaxSummaries == 2       \* calls of summarize in ContextSpec

\* ------------------------------------------------------- program constants
SUMMARY_EVERY == 5      \* features_since_last_summary >= 5

NoCategory == "<absent>"            \* the feature has no "category" key
Categories == {"a", NoCategory}
Terminal == {"passed", "failed", "skipped"}
Decisions == {"auto-proceed", "soft-checkpoint", "hard-checkpoint"}

FeatureIx == 1..NumFeatures

VARIABLES
    feature_items,      \* features["features"]: the in-memory feature dicts
    feature_list_json,  \* the persisted feature-list document
    iteration,          \* self.state.iteration
    max_iterations,     \* self.config.max_iterations
    pause_on_error,     \* self.config.pause_on_error
    paused,             \* self.state.paused
    errors,             \* self.state.errors
    pc,                 \* position of run_implementation_phase
    current_feature,    \* index of current_feature in feature_items, 0 = none
    checkpoint_decision,\* checkpoint_decision.decision of this iteration
    loaded_iteration,   \* the value `iteration += 1` has loaded
    completed_features, \* self.completed_features
    features_since_last_summary,
    feature_logs,       \* .autonomous/logs/<id>.json : id -> logged status
    impact_calls,       \* assess_impact calls made for the current feature
    dispatch_order,     \* features in the order they were sent (observer)
    initial_pending,    \* number of pending features when the list was read
    stop_requested,     \* stop() has been called (observer)
    summarize_calls,    \* the calls of context_agent.summarize (observer)
    decision_records,   \* .autonomous/checkpoints/checkpoint-<id>.json
    decisions_log,      \* .autonomous/checkpoints/decisions-log.json
    blackboard,         \* "checkpointDecision" of execution-state.json
    assessment,         \* the CheckpointDecision assess_risk returned last
    assess_failure,     \* what raised inside that call (observer)
    checkpoint_events,  \* emit_output("checkpoint", ...) events (observer)
    clock,              \* int(time.time() * 1000)
    logs_dir,           \* .autonomous/logs/*.json, oldest modification first
    failure_score,      \* what _calculate_failure_score returned last
    impact_files,       \* .autonomous/impact/ and "impactAssessment"
    impact_result,      \* what assess_impact returned last
    context_files,      \* .autonomous/context/ and "contextSummary"
    context_result,     \* what summarize / get_injection returned last
    execution_state     \* .autonomous/state/execution-state.json, whole

vars == << feature_items, feature_list_json, iteration, max_iterations,
           pause_on_error, paused, errors, pc, current_feature,
           checkpoint_decision, loaded_iteration, completed_features,
           features_since_last_summary, feature_logs, impact_calls,
           dispatch_order, initial_pending, stop_requested,
           summarize_calls, decision_records, decisions_log, blackboard,
           assessment, assess_failure, checkpoint_events, clock, logs_dir,
           failure_score, impact_files, impact_result, context_files,
           context_result,
                    execution_state >>

\* the state of the loop and of its feature list
loop_state == << feature_items, feature_list_json, iteration, max_iterations,
                 pause_on_error, paused, errors, pc, current_feature,
                 checkpoint_decision, loaded_iteration, completed_features,
                 features_since_last_summary, feature_logs, impact_calls,
                 dispatch_order, initial_pending, stop_requested,
                 summarize_calls >>

\* the files and events of the checkpoint engine
checkpoint_store == << decision_records, decisions_log, blackboard,
                       assessment, assess_failure, checkpoint_events >>

\* a file that does not exist, a value that was never set
Absent == [ absent |-> TRUE ]

\* a file that holds text json.loads cannot parse
Unreadable == [ unreadable |-> TRUE ]

\* read_json_file: the default when the file does not exist or cannot be
\* parsed, else the document
read_json_file(file, default) ==
    IF file \in {Absent, Unreadable} THEN default ELSE file

UnknownId == 0      \* feature.get("id", "unknown")
NoneId == -1        \* feature.get("id") of a feature without id: None
NoTime == 0         \* approved_at: Optional[int] = None
RecordKeys == NoneId..NumFeatures

\* no checkpoint file has been written
StoreInit ==
    /\ decision_records = [ k \in RecordKeys |-> Absent ]
    /\ decisions_log = Absent
    /\ blackboard = Absent
    /\ assessment = Absent
    /\ assess_failure = "none"
    /\ checkpoint_events = << >>

\* the files and results of the engines when they are called on their own
engine_files == << clock, logs_dir, failure_score, impact_files,
                  impact_result, context_files, context_result,
                    execution_state >>

\* no engine has written a file or returned a result
EnginesInit ==
    /\ clock = 1
    /\ execution_state = Absent
    /\ logs_dir = << >>
    /\ failure_score = Absent
    /\ impact_files = Absent
    /\ impact_result = Absent
    /\ context_files = Absent
    /\ context_result = Absent

\* ------------------------------------------------------------ feature list
\* A feature dict: its id, its category (or none), the ids it depends on and
\* its status.  The id of the i-th feature of the list is i.
DependencyEdges == { e \in (FeatureIx \X FeatureIx) : e[1] # e[2] }

\* no dependency at all, or one feature depending on one other feature
DependencyGraphs == { {} } \cup { {e} : e \in DependencyEdges }

\* The loop takes the first pending feature and never makes a feature
\* pending, so the features already processed by earlier runs are a prefix
\* of the list.
InitialStatuses ==
    { [ i \in FeatureIx |-> IF i <= k THEN "passed" ELSE "pending" ] :
        k \in 0..NumFeatures }

FeatureLists ==
    { [ i \in FeatureIx |->
          [ id |-> i,
            category |-> cat[i],
            dependencies |-> { j \in FeatureIx : <<i, j>> \in g },
            status |-> st[i] ] ] :
        cat \in [FeatureIx -> Categories],
        st \in InitialStatuses,
        g \in DependencyGraphs }

\* pending = [f for f in feature_items if f.get("status") == "pending"]
Pending(items) == SelectSeq(items, LAMBDA f : f.status = "pending")

Ids(items) == [ k \in DOMAIN items |-> items[k].id ]

\* save_feature_list: the whole document is rewritten from memory
save_feature_list(items) == items

\* handle_checkpoint: every decision type resolves to "proceed"
handle_checkpoint(decision) ==
    CASE decision = "auto-proceed" -> TRUE
      [] decision = "soft-checkpoint" -> TRUE
      [] decision = "hard-checkpoint" -> TRUE
      [] OTHER -> TRUE

\* the success heuristic: "test" in response.lower() and "pass" in ...
ResponseSet == [ has_test : BOOLEAN, has_pass : BOOLEAN ]
Succeeded(response) == response.has_test /\ response.has_pass

\* current_feature.get("category", "uncategorized")
feature_category(f) ==
    IF f.category = NoCategory THEN "uncategorized" ELSE f.category

\* is_category_complete(category, all_features)
is_category_complete(category, all_features) ==
    LET category_features ==
            SelectSeq(all_features, LAMBDA f : f.category = category)
        completed ==
            SelectSeq(category_features, LAMBDA f : f.status \in Terminal)
    IN  IF category_features = << >>
        THEN FALSE
        ELSE Len(completed) = Len(category_features)

\* mutant: every remaining feature is taken for a dependent
get_dependent_features_All(completed_feature, remaining_features) ==
    remaining_features

\* ImpactAgent._get_dependent_features
get_dependent_features(completed_feature, remaining_features) ==
    SelectSeq(remaining_features,
              LAMBDA f : completed_feature.id \in f.dependencies)

\* ImpactAgent.assess_impact: the features it analyses.  completed is 0 when
\* no completed feature is passed (the category trigger).
features_to_analyze(scope, completed, items, remaining_features) ==
    IF scope = "direct-dependencies" /\ completed # 0
    THEN get_dependent_features(items[completed], remaining_features)
    ELSE remaining_features

ImpactCall(trigger, scope, completed, category, items) ==
    [ trigger |-> trigger,
      scope |-> scope,
      completed |-> completed,
      category |-> category,
      remaining |-> Ids(Pending(items)),
      analyzed |-> Ids(features_to_analyze(scope, completed, items, Pending(items))) ]

\* ------------------------------------------------------------------- Init
Init ==
    /\ feature_items \in FeatureLists
    /\ feature_list_json = feature_items
    /\ iteration = 0
    /\ max_iterations \in 1..MaxIterations
    /\ pause_on_error \in BOOLEAN
    /\ paused = FALSE
    /\ errors = << >>
    /\ pc = "while"
    /\ current_feature = 0
    /\ checkpoint_decision = "none"
    /\ loaded_iteration = 0
    /\ completed_features = << >>
    /\ features_since_last_summary = 0
    /\ feature_logs = [ i \in FeatureIx |-> "none" ]
    /\ impact_calls = << >>
    /\ dispatch_order = << >>
    /\ initial_pending = Len(Pending(feature_items))
    /\ stop_requested = FALSE
    /\ summarize_calls = << >>
    /\ StoreInit
    /\ EnginesInit

\* ----------------------------------------------------------- loop actions
config == << max_iterations, pause_on_error >>
observers == << dispatch_order, initial_pending, stop_requested,
               summarize_calls >>
summary_state == << completed_features, features_since_last_summary >>

\* while self.state.iteration < self.config.max_iterations
WhileTest ==
    /\ pc = "while"
    /\ pc' = IF iteration < max_iterations THEN "ifpaused" ELSE "final"
    /\ UNCHANGED << feature_items, feature_list_json, iteration, config,
                    paused, errors, current_feature, checkpoint_decision,
                    loaded_iteration, summary_state, feature_logs,
                    impact_calls, observers,
                    checkpoint_store, engine_files >>

\* mutant: the paused flag is not looked at
PausedTest_IgnoresFlag ==
    /\ pc = "ifpaused"
    /\ pc' = "increment"
    /\ UNCHANGED << feature_items, feature_list_json, iteration, config,
                    paused, errors, current_feature, checkpoint_decision,
                    loaded_iteration, summary_state, feature_logs,
                    impact_calls, observers,
                    checkpoint_store, engine_files >>

\* if self.state.paused: await asyncio.sleep(1); continue
PausedTest ==
    /\ pc = "ifpaused"
    /\ pc' = IF paused THEN "idle" ELSE "increment"
    /\ UNCHANGED << feature_items, feature_list_json, iteration, config,
                    paused, errors, current_feature, checkpoint_decision,
                    loaded_iteration, summary_state, feature_logs,
                    impact_calls, observers,
                    checkpoint_store, engine_files >>

IdleSleep ==
    /\ pc = "idle"
    /\ pc' = "while"
    /\ UNCHANGED << feature_items, feature_list_json, iteration, config,
                    paused, errors, current_feature, checkpoint_decision,
                    loaded_iteration, summary_state, feature_logs,
                    impact_calls, observers,
                    checkpoint_store, engine_files >>

\* self.state.iteration += 1 : the load ...
IncrementLoad ==
    /\ pc = "increment"
    /\ loaded_iteration' = iteration
    /\ pc' = "store"
    /\ UNCHANGED << feature_items, feature_list_json, iteration, config,
                    paused, errors, current_feature, checkpoint_decision,
                    summary_state, feature_logs, impact_calls, observers,
                    checkpoint_store, engine_files >>

\* mutant: the counter is advanced by two
IncrementStore_ByTwo ==
    /\ pc = "store"
    /\ iteration' = loaded_iteration + 2
    /\ pc' = "select"
    /\ UNCHANGED << feature_items, feature_list_json, config, paused, errors,
                    current_feature, checkpoint_decision, loaded_iteration,
                    summary_state, feature_logs, impact_calls, observers,
                    checkpoint_store, engine_files >>

\* ... and the store
IncrementStore ==
    /\ pc = "store"
    /\ iteration' = loaded_iteration + 1
    /\ pc' = "select"
    /\ UNCHANGED << feature_items, feature_list_json, config, paused, errors,
                    current_feature, checkpoint_decision, loaded_iteration,
                    summary_state, feature_logs, impact_calls, observers,
                    checkpoint_store, engine_files >>

\* mutant: the last pending feature is taken (pending[-1])
SelectFeature_LastPending ==
    /\ pc = "select"
    /\ IF Pending(feature_items) = << >>
       THEN /\ pc' = "final"
            /\ UNCHANGED << current_feature, impact_calls >>
       ELSE /\ current_feature' =
                  Pending(feature_items)[Len(Pending(feature_items))].id
            /\ impact_calls' = << >>
            /\ pc' = "checkpoint"
    /\ UNCHANGED << feature_items, feature_list_json, iteration, config,
                    paused, errors, checkpoint_decision, loaded_iteration,
                    summary_state, feature_logs, observers,
                    checkpoint_store, engine_files >>

\* pending = [...]; if not pending: break; current_feature = pending[0]
SelectFeature ==
    /\ pc = "select"
    /\ IF Pending(feature_items) = << >>
       THEN /\ pc' = "final"
            /\ UNCHANGED << current_feature, impact_calls >>
       ELSE /\ current_feature' = Pending(feature_items)[1].id
            /\ impact_calls' = << >>
            /\ pc' = "checkpoint"
    /\ UNCHANGED << feature_items, feature_list_json, iteration, config,
                    paused, errors, checkpoint_decision, loaded_iteration,
                    summary_state, feature_logs, observers,
                    checkpoint_store, engine_files >>

\* checkpoint_decision = self.checkpoint_agent.assess_risk(current_feature)
AssessRisk ==
    /\ pc = "checkpoint"
    /\ checkpoint_decision' \in Decisions
    /\ pc' = "handle"
    /\ UNCHANGED << feature_items, feature_list_json, iteration, config,
                    paused, errors, current_feature, loaded_iteration,
                    summary_state, feature_logs, impact_calls, observers,
                    checkpoint_store, engine_files >>

\* should_proceed = self.handle_checkpoint(...); mark skipped or in_progress
\* and save the feature list
HandleCheckpoint ==
    /\ pc = "handle"
    /\ IF ~ handle_checkpoint(checkpoint_decision)
       THEN /\ feature_items' =
                  [feature_items EXCEPT ![current_feature].status = "skipped"]
            /\ pc' = "while"
            /\ UNCHANGED dispatch_order
       ELSE /\ feature_items' =
                  [feature_items EXCEPT ![current_feature].status = "in_progress"]
            /\ dispatch_order' = Append(dispatch_order, current_feature)
            /\ pc' = "dispatch"
    /\ feature_list_json' = save_feature_list(feature_items')
    /\ UNCHANGED << iteration, config, paused, errors, current_feature,
                    checkpoint_decision, loaded_iteration, summary_state,
                    feature_logs, impact_calls, initial_pending,
                    stop_requested, summarize_calls,
                    checkpoint_store, engine_files >>

\* response = await self.client.send_message(...) returns; the heuristic
\* sets passed or failed
DispatchReturn ==
    /\ pc = "dispatch"
    /\ \E response \in ResponseSet :
         feature_items' =
            [feature_items EXCEPT ![current_feature].status =
                IF Succeeded(response) THEN "passed" ELSE "failed"]
    /\ pc' = "log"
    /\ UNCHANGED << feature_list_json, iteration, config, paused, errors,
                    current_feature, checkpoint_decision, loaded_iteration,
                    summary_state, feature_logs, impact_calls, observers,
                    checkpoint_store, engine_files >>

\* send_message raises
DispatchRaise ==
    /\ pc = "dispatch"
    /\ pc' = "except"
    /\ UNCHANGED << feature_items, feature_list_json, iteration, config,
                    paused, errors, current_feature, checkpoint_decision,
                    loaded_iteration, summary_state, feature_logs,
                    impact_calls, observers,
                    checkpoint_store, engine_files >>

\* self.write_feature_log(current_feature); completed_features.append(...)
WriteFeatureLog ==
    /\ pc = "log"
    /\ feature_logs' = [feature_logs EXCEPT ![feature_items[current_feature].id] =
                            feature_items[current_feature].status]
    /\ completed_features' =
            Append(completed_features, feature_items[current_feature].id)
    /\ features_since_last_summary' = features_since_last_summary + 1
    /\ pc' = "save"
    /\ UNCHANGED << feature_items, feature_list_json, iteration, config,
                    paused, errors, current_feature, checkpoint_decision,
                    loaded_iteration, impact_calls, observers,
                    checkpoint_store, engine_files >>

\* self.save_feature_list(features) after the completion record
SaveCompleted ==
    /\ pc = "save"
    /\ feature_list_json' = save_feature_list(feature_items)
    /\ pc' = "impact_high"
    /\ UNCHANGED << feature_items, iteration, config, paused, errors,
                    current_feature, checkpoint_decision, loaded_iteration,
                    summary_state, feature_logs, impact_calls, observers,
                    checkpoint_store, engine_files >>

\* write_feature_log or save_feature_list raises inside the try block
PostDispatchRaise ==
    /\ pc \in {"log", "save"}
    /\ pc' = "except"
    /\ UNCHANGED << feature_items, feature_list_json, iteration, config,
                    paused, errors, current_feature, checkpoint_decision,
                    loaded_iteration, summary_state, feature_logs,
                    impact_calls, observers,
                    checkpoint_store, engine_files >>

\* mutant: the category check is made where the high-risk check belongs
ImpactHighRisk_CategoryFirst ==
    /\ pc = "impact_high"
    /\ LET category == feature_category(feature_items[current_feature])
       IN  impact_calls' =
              IF /\ is_category_complete(category, feature_items)
                 /\ Pending(feature_items) # << >>
              THEN Append(impact_calls,
                          ImpactCall("category-completion", "all-remaining",
                                     0, category, feature_items))
              ELSE impact_calls
    /\ pc' = "impact_category"
    /\ UNCHANGED << feature_items, feature_list_json, iteration, config,
                    paused, errors, current_feature, checkpoint_decision,
                    loaded_iteration, summary_state, feature_logs, observers,
                    checkpoint_store, engine_files >>

\* Trigger 1: high-risk feature completion
ImpactHighRisk ==
    /\ pc = "impact_high"
    /\ impact_calls' =
          IF /\ checkpoint_decision = "hard-checkpoint"
             /\ Pending(feature_items) # << >>
          THEN Append(impact_calls,
                      ImpactCall("high-risk-completion", "direct-dependencies",
                                 current_feature, "none", feature_items))
          ELSE impact_calls
    /\ pc' = "impact_category"
    /\ UNCHANGED << feature_items, feature_list_json, iteration, config,
                    paused, errors, current_feature, checkpoint_decision,
                    loaded_iteration, summary_state, feature_logs, observers,
                    checkpoint_store, engine_files >>

\* Trigger 2: category completion
ImpactCategory ==
    /\ pc = "impact_category"
    /\ LET category == feature_category(feature_items[current_feature])
       IN  impact_calls' =
              IF /\ is_category_complete(category, feature_items)
                 /\ Pending(feature_items) # << >>
              THEN Append(impact_calls,
                          ImpactCall("category-completion", "all-remaining",
                                     0, category, feature_items))
              ELSE impact_calls
    /\ pc' = "summarize"
    /\ UNCHANGED << feature_items, feature_list_json, iteration, config,
                    paused, errors, current_feature, checkpoint_decision,
                    loaded_iteration, summary_state, feature_logs, observers,
                    checkpoint_store, engine_files >>

\* trigger_context_summarization: summarize(self.completed_features); the
\* list and the counter are reset only when the call reports success (a call
\* that raises is caught and resets nothing either)
trigger_context_summarization(success) ==
    IF completed_features = << >>
    THEN UNCHANGED << summary_state, summarize_calls >>
    ELSE /\ summarize_calls' =
               Append(summarize_calls,
                      [ completed |-> completed_features, success |-> success ])
         /\ IF success
            THEN /\ completed_features' = << >>
                 /\ features_since_last_summary' = 0
            ELSE UNCHANGED summary_state

\* if self.features_since_last_summary >= 5: trigger_context_summarization()
SummarizeEvery ==
    /\ pc = "summarize"
    /\ IF features_since_last_summary >= SUMMARY_EVERY
       THEN \E success \in BOOLEAN : trigger_context_summarization(success)
       ELSE UNCHANGED << summary_state, summarize_calls >>
    /\ pc' = "sleep"
    /\ UNCHANGED << feature_items, feature_list_json, iteration, config,
                    paused, errors, current_feature, checkpoint_decision,
                    loaded_iteration, feature_logs, impact_calls,
                    dispatch_order, initial_pending, stop_requested,
                    checkpoint_store, engine_files >>

\* mutant: the handler pauses whatever pause_on_error says
Except_AlwaysPauses ==
    /\ pc = "except"
    /\ feature_items' =
          [feature_items EXCEPT ![current_feature].status = "failed"]
    /\ errors' = Append(errors, current_feature)
    /\ paused' = TRUE
    /\ pc' = "sleep"
    /\ UNCHANGED << feature_list_json, iteration, config, current_feature,
                    checkpoint_decision, loaded_iteration, summary_state,
                    feature_logs, impact_calls, observers,
                    checkpoint_store, engine_files >>

\* mutant: the handler leaves the status of the feature as it is
Except_KeepsStatus ==
    /\ pc = "except"
    /\ errors' = Append(errors, current_feature)
    /\ paused' = IF pause_on_error THEN TRUE ELSE paused
    /\ pc' = "sleep"
    /\ UNCHANGED << feature_items, feature_list_json, iteration, config,
                    current_feature, checkpoint_decision, loaded_iteration,
                    summary_state, feature_logs, impact_calls, observers,
                    checkpoint_store, engine_files >>

\* except Exception as e: status = "failed"; errors.append(str(e));
\* if pause_on_error: paused = True        (the feature list is not saved)
Except ==
    /\ pc = "except"
    /\ feature_items' =
          [feature_items EXCEPT ![current_feature].status = "failed"]
    /\ errors' = Append(errors, current_feature)
    /\ paused' = IF pause_on_error THEN TRUE ELSE paused
    /\ pc' = "sleep"
    /\ UNCHANGED << feature_list_json, iteration, config, current_feature,
                    checkpoint_decision, loaded_iteration, summary_state,
                    feature_logs, impact_calls, observers,
                    checkpoint_store, engine_files >>

\* await asyncio.sleep(0.5)
IterationSleep ==
    /\ pc = "sleep"
    /\ pc' = "while"
    /\ UNCHANGED << feature_items, feature_list_json, iteration, config,
                    paused, errors, current_feature, checkpoint_decision,
                    loaded_iteration, summary_state, feature_logs,
                    impact_calls, observers,
                    checkpoint_store, engine_files >>

\* after the loop: if self.completed_features: trigger_context_summarization()
FinalSummarize ==
    /\ pc = "final"
    /\ \E success \in BOOLEAN : trigger_context_summarization(success)
    /\ pc' = "done"
    /\ UNCHANGED << feature_items, feature_list_json, iteration, config,
                    paused, errors, current_feature, checkpoint_decision,
                    loaded_iteration, feature_logs, impact_calls,
                    dispatch_order, initial_pending, stop_requested,
                    checkpoint_store, engine_files >>

\* ------------------------------------------------------ external requests
Suspended == pc \in {"idle", "dispatch", "sleep"}

\* pause(): self.state.paused = True
Pause ==
    /\ Suspended
    /\ ~ paused
    /\ paused' = TRUE
    /\ UNCHANGED << feature_items, feature_list_json, iteration, config,
                    errors, pc, current_feature, checkpoint_decision,
                    loaded_iteration, summary_state, feature_logs,
                    impact_calls, observers,
                    checkpoint_store, engine_files >>

\* resume(): self.state.paused = False
Resume ==
    /\ Suspended
    /\ paused
    /\ paused' = FALSE
    /\ UNCHANGED << feature_items, feature_list_json, iteration, config,
                    errors, pc, current_feature, checkpoint_decision,
                    loaded_iteration, summary_state, feature_logs,
                    impact_calls, observers,
                    checkpoint_store, engine_files >>

\* stop(): self.state.iteration = self.config.max_iterations
Stop ==
    /\ pc # "done"
    /\ iteration' = max_iterations
    /\ stop_requested' = TRUE
    /\ UNCHANGED << feature_items, feature_list_json, config, paused, errors,
                    pc, current_feature, checkpoint_decision,
                    loaded_iteration, summary_state, feature_logs,
                    impact_calls, dispatch_order, initial_pending,
                    summarize_calls,
                    checkpoint_store, engine_files >>

\* ------------------------------------------------------------------- Next
Next ==
    \/ WhileTest
    \/ PausedTest
    \/ IdleSleep
    \/ IncrementLoad
    \/ IncrementStore
    \/ SelectFeature
    \/ AssessRisk
    \/ HandleCheckpoint
    \/ DispatchReturn
    \/ DispatchRaise
    \/ WriteFeatureLog
    \/ SaveCompleted
    \/ PostDispatchRaise
    \/ ImpactHighRisk
    \/ ImpactCategory
    \/ SummarizeEvery
    \/ Except
    \/ IterationSleep
    \/ FinalSummarize
    \/ Pause
    \/ Resume
    \/ Stop

Spec == Init /\ [][Next]_vars

TypeOK ==
    /\ iteration \in 0..(MaxIterations + 1)
    /\ pc \in {"while", "ifpaused", "idle", "increment", "store", "select",
               "checkpoint", "handle", "dispatch", "log", "save",
               "impact_high", "impact_category", "summarize", "except",
               "sleep", "final", "done"}

\* --------------------------------------------------------------- fairness
\* The steps of the coroutine itself: it always takes its next step, and a
\* collaborator call in flight returns or raises.
Loop ==
    \/ WhileTest \/ PausedTest \/ IdleSleep \/ IncrementLoad \/ IncrementStore
    \/ SelectFeature \/ AssessRisk \/ HandleCheckpoint \/ DispatchReturn
    \/ DispatchRaise \/ WriteFeatureLog \/ SaveCompleted \/ PostDispatchRaise
    \/ ImpactHighRisk \/ ImpactCategory \/ SummarizeEvery \/ Except
    \/ IterationSleep \/ FinalSummarize

\* Feature lists without categories and dependencies: neither is read by
\* the control flow of the loop.
PlainList ==
    \A i \in FeatureIx : /\ feature_items[i].category = NoCategory
                         /\ feature_items[i].dependencies = {}

InitFair == Init /\ PlainList

\* The host resumes a paused loop and issues finitely many pause requests.
FairSpec ==
    /\ InitFair
    /\ [][Next]_vars
    /\ WF_vars(Loop)
    /\ SF_vars(Resume)
    /\ <>[][~ Pause]_vars

\* ------------------------------------------------------------- properties
StatusOf(items) == [ i \in FeatureIx |-> items[i].status ]
PendingIds == { i \in FeatureIx : feature_items[i].status = "pending" }
InProgress(items) == { i \in FeatureIx : items[i].status = "in_progress" }

\* C1: every status change of a feature is pending -> in_progress or
\* in_progress -> passed / failed / skipped; a feature that is passed, failed
\* or skipped never changes its status again.
C1_StatusTransitions ==
    [][ \A i \in FeatureIx :
          LET old == feature_items[i].status
              new == feature_items'[i].status
          IN  old # new =>
                \/ old = "pending" /\ new = "in_progress"
                \/ old = "in_progress" /\ new \in Terminal ]_vars

\* C2: whenever the loop is between iterations, idling while paused, or has
\* exited, the persisted status of every feature equals its status in memory.
C2_PersistedEqualsMemory ==
    pc \in {"sleep", "while", "ifpaused", "idle", "final", "done"}
        => StatusOf(feature_list_json) = StatusOf(feature_items)

\* C3: a raise inside the dispatch is caught in the iteration: the step out
\* of the dispatch goes to the completion record or to the handler, never out
\* of the loop; the handler marks the feature failed, appends the error,
\* sets the paused flag exactly when pause_on_error is configured (and leaves
\* it alone otherwise), and the loop goes on to its between-iterations sleep
\* with the failed feature no longer pending.
C3_DispatchFailureCaught ==
    [][ /\ (pc = "dispatch" /\ pc' # pc) => pc' \in {"log", "except"}
        /\ (pc = "except" /\ pc' # pc) =>
              /\ feature_items'[current_feature].status = "failed"
              /\ \A i \in FeatureIx \ {current_feature} :
                    feature_items'[i] = feature_items[i]
              /\ errors' = Append(errors, current_feature)
              /\ pause_on_error => paused'
              /\ ~ pause_on_error => paused' = paused
              /\ pc' = "sleep" ]_vars

\* a second feature is in flight after the first one's dispatch raised and
\* the loop was not configured to pause
C3_Witness ==
    /\ errors # << >>
    /\ ~ pause_on_error
    /\ pc = "dispatch"
    /\ feature_items[errors[1]].status = "failed"

\* C4: once stop() has been called no pending feature is moved to
\* in_progress any more and the next iteration check leaves the loop.
C4_StopObserved ==
    [][ stop_requested =>
          /\ \A i \in FeatureIx :
                ~ ( /\ feature_items[i].status = "pending"
                    /\ feature_items'[i].status = "in_progress" )
          /\ (pc = "while" /\ pc' # pc) => pc' = "final" ]_vars

\* C5: while the paused flag is set no pending feature is selected or changes
\* status, the current feature stays the same and the iteration counter is
\* not advanced by the loop (only stop() may set it to max_iterations); the
\* feature selected once the loop runs again is the first pending one.
C5_PausedIdles ==
    [][ /\ paused =>
              /\ \A i \in FeatureIx :
                    feature_items[i].status = "pending"
                        => feature_items'[i].status = "pending"
              /\ current_feature' = current_feature
              /\ pc' \notin {"select", "checkpoint", "handle"}
              /\ iteration' \in {iteration, max_iterations}
        /\ (pc = "select" /\ pc' = "checkpoint") =>
              /\ current_feature' \in PendingIds
              /\ \A i \in PendingIds : current_feature' <= i ]_vars

\* the loop idles, paused, with work left and iterations left
C5_Witness ==
    /\ pc = "idle"
    /\ paused
    /\ PendingIds # {}
    /\ iteration < max_iterations

\* C6: features are dispatched in list order: of two dispatched features the
\* one earlier in the list was dispatched first, and a selected feature has
\* no pending feature before it, whatever the categories and dependencies.
C6_FifoOrder ==
    /\ \A p, q \in DOMAIN dispatch_order :
          p < q => dispatch_order[p] < dispatch_order[q]
    /\ pc \in {"checkpoint", "handle"} =>
          \A i \in PendingIds : current_feature <= i

\* both features were dispatched in list order although the first one
\* depends on the second one
C6_Witness ==
    /\ Len(dispatch_order) = 2
    /\ dispatch_order[2] \in feature_items[dispatch_order[1]].dependencies
    /\ feature_items[dispatch_order[1]].category
          # feature_items[dispatch_order[2]].category

\* C7: at most one feature is in_progress, in memory and in the persisted
\* feature-list document (the initial list has no in_progress feature).
C7_OneInFlight ==
    /\ Cardinality(InProgress(feature_items)) <= 1
    /\ Cardinality(InProgress(feature_list_json)) <= 1

\* the second feature is in flight while the document still has to be
\* rewritten for the first one, whose dispatch raised
C7_Witness ==
    /\ Len(dispatch_order) = 2
    /\ errors # << >>
    /\ InProgress(feature_items) = {dispatch_order[2]}
    /\ InProgress(feature_list_json) = {dispatch_order[2]}

HighRiskCalls == SelectSeq(impact_calls,
                           LAMBDA c : c.trigger = "high-risk-completion")
CategoryCalls == SelectSeq(impact_calls,
                           LAMBDA c : c.trigger = "category-completion")
Range(seq) == { seq[k] : k \in DOMAIN seq }
Dependents(completed) ==
    { i \in PendingIds : completed \in feature_items[i].dependencies }

C10_CategoryTrigger ==
    ( /\ pc = "sleep"
      /\ current_feature # 0
      /\ feature_items[current_feature].status \in Terminal
      /\ \A i \in FeatureIx :
            feature_items[i].category = feature_items[current_feature].category
                => feature_items[i].status \in Terminal
      /\ PendingIds # {} )
    => \E k \in DOMAIN CategoryCalls :
          /\ CategoryCalls[k].scope = "all-remaining"
          /\ Range(CategoryCalls[k].analyzed) = PendingIds

\* ------------------------------------------ summarization over a long list
\* A list long enough for the every-five trigger: plain pending features.
SummaryList ==
    [ i \in 1..SummaryFeatures |->
        [ id |-> i, category |-> NoCategory, dependencies |-> {},
          status |-> "pending" ] ]

\* The loop ends on the iteration limit or on an empty queue.
SummaryInit ==
    /\ feature_items = SummaryList
    /\ feature_list_json = feature_items
    /\ iteration = 0
    /\ max_iterations \in {SummaryFeatures - 1, SummaryFeatures + 1}
    /\ pause_on_error = FALSE
    /\ paused = FALSE
    /\ errors = << >>
    /\ pc = "while"
    /\ current_feature = 0
    /\ checkpoint_decision = "none"
    /\ loaded_iteration = 0
    /\ completed_features = << >>
    /\ features_since_last_summary = 0
    /\ feature_logs = [ i \in 1..SummaryFeatures |-> "none" ]
    /\ impact_calls = << >>
    /\ dispatch_order = << >>
    /\ initial_pending = Len(Pending(feature_items))
    /\ stop_requested = FALSE
    /\ summarize_calls = << >>
    /\ StoreInit
    /\ EnginesInit

\* the loop on its own: no pause(), resume() or stop() request
SummaryNext ==
    \/ WhileTest
    \/ PausedTest
    \/ IncrementLoad
    \/ IncrementStore
    \/ SelectFeature
    \/ AssessRisk
    \/ HandleCheckpoint
    \/ DispatchReturn
    \/ DispatchRaise
    \/ WriteFeatureLog
    \/ SaveCompleted
    \/ PostDispatchRaise
    \/ ImpactHighRisk
    \/ ImpactCategory
    \/ SummarizeEvery
    \/ Except
    \/ IterationSleep
    \/ FinalSummarize

SummarySpec == SummaryInit /\ [][SummaryNext]_vars

\* how many of the summarize calls were given the feature id
TimesSummarized(id) ==
    Cardinality({ k \in DOMAIN summarize_calls :
                    \E j \in DOMAIN summarize_calls[k].completed :
                        summarize_calls[k].completed[j] = id })

\* C11: when an iteration ends with five or more features completed since
\* the last successful summarization, summarize has been called with all of
\* them; when the loop has ended and completed features were left, the last
\* call was given them; and when every call succeeded, at the end every
\* completed feature id has been passed to summarize exactly once.
C11_SummarizationDue ==
    /\ (pc = "sleep" /\ features_since_last_summary >= SUMMARY_EVERY) =>
          /\ summarize_calls # << >>
          /\ summarize_calls[Len(summarize_calls)].completed = completed_features
    /\ (pc = "done" /\ completed_features # << >>) =>
          /\ summarize_calls # << >>
          /\ summarize_calls[Len(summarize_calls)].completed = completed_features
    /\ ( /\ pc = "done"
         /\ \A k \in DOMAIN summarize_calls : summarize_calls[k].success ) =>
          \A id \in DOMAIN feature_logs :
              feature_logs[id] # "none" => TimesSummarized(id) = 1

\* C12: once the loop has left the iteration of a feature it dispatched (it
\* is between iterations, selecting the next feature, or has ended), a
\* feature that ended passed or failed has a completion log record that
\* carries that final status.
C12_CompletionLogged ==
    pc \in {"sleep", "while", "ifpaused", "idle", "increment", "store",
            "select", "final", "done"} =>
        \A k \in DOMAIN dispatch_order :
            LET f == feature_items[dispatch_order[k]]
            IN  f.status \in {"passed", "failed"} =>
                    feature_logs[f.id] = f.status

\* the place of a loop position in the sequence of one iteration's events
Stage(p) ==
    CASE p = "checkpoint" -> 1
      [] p = "handle" -> 2
      [] p = "dispatch" -> 3
      [] p = "log" -> 4
      [] p = "save" -> 5
      [] p = "impact_high" -> 6
      [] p = "impact_category" -> 7
      [] p \in {"summarize", "except"} -> 8
      [] p = "sleep" -> 9
      [] OTHER -> 0

\* C13: within an iteration the loop only moves forward through checkpoint
\* decision, in_progress mark, dispatch, completion record, high-risk
\* assessment, category assessment, summarization; each event happens at its
\* own place and for the current feature only; and the current feature
\* changes only at the selection, after the events of the previous one.
C13_EventOrder ==
    [][ /\ (Stage(pc) > 0 /\ Stage(pc') > 0 /\ pc' # pc) =>
              Stage(pc') > Stage(pc)
        /\ current_feature' # current_feature => pc = "select"
        /\ pc' = "handle" => pc \in {"checkpoint", "handle"}
        /\ \A i \in FeatureIx :
              feature_items'[i].status # feature_items[i].status =>
                  /\ i = current_feature
                  /\ feature_items'[i].status = "in_progress" => pc = "handle"
                  /\ feature_items'[i].status \in {"passed", "failed"} =>
                        pc \in {"dispatch", "except"}
        /\ dispatch_order' # dispatch_order =>
              /\ pc = "handle"
              /\ dispatch_order' = Append(dispatch_order, current_feature)
        /\ feature_logs' # feature_logs =>
              /\ pc = "log"
              /\ \A i \in FeatureIx \ {current_feature} :
                    feature_logs'[i] = feature_logs[i]
        /\ Len(impact_calls') > Len(impact_calls) =>
              LET call == impact_calls'[Len(impact_calls')]
              IN  /\ call.trigger = "high-risk-completion" =>
                        pc = "impact_high" /\ call.completed = current_feature
                  /\ call.trigger = "category-completion" =>
                        pc = "impact_category"
        /\ summarize_calls' # summarize_calls =>
              pc \in {"summarize", "final"} ]_vars

\* the first feature went through both impact assessments, the high-risk one
\* first, and the loop is at its summarization check
C13_Witness ==
    /\ pc = "summarize"
    /\ Len(impact_calls) = 2
    /\ impact_calls[1].trigger = "high-risk-completion"
    /\ impact_calls[2].trigger = "category-completion"

\* ---------------------------------------------------- the checkpoint engine
\* CheckpointAgent of checkpoint_agent.py.  A text (a name, a file path) is
\* the set of the pattern words and name words that occur in it.
AUTO_PROCEED_THRESHOLD == 30
SOFT_CHECKPOINT_THRESHOLD == 70

\* one pattern of each score of the three tables
HIGH_RISK_PATTERNS == ("auth" :> 30) @@ ("migration" :> 25)
MEDIUM_RISK_PATTERNS == ("api" :> 15) @@ ("service" :> 20)
LOW_RISK_PATTERNS == ("component" :> 5) @@ ("test" :> 0)

MaxOf(S) == CHOOSE m \in S : \A n \in S : n <= m

\* max_score = max(max_score, score) over the patterns found in the text
MatchPatterns(patterns, text, max_score) ==
    MaxOf({max_score} \cup { patterns[w] : w \in (DOMAIN patterns) \cap text })

\* _score_text_patterns
score_text_patterns(text) ==
    LET high == MatchPatterns(HIGH_RISK_PATTERNS, text, 0)
        medium == IF high < 25
                  THEN MatchPatterns(MEDIUM_RISK_PATTERNS, text, high)
                  ELSE high
    IN  IF medium < 10
        THEN MatchPatterns(LOW_RISK_PATTERNS, text, medium)
        ELSE medium

\* _calculate_file_count_score
calculate_file_count_score(feature) ==
    LET file_count == Len(feature.files)
    IN  IF file_count <= 3 THEN 0
        ELSE IF file_count <= 6 THEN 10
        ELSE IF file_count <= 10 THEN 15
        ELSE 25

\* _calculate_file_type_score: the name and category when no file is named,
\* else the highest score of a file path
calculate_file_type_score(feature) ==
    IF feature.files = << >>
    THEN score_text_patterns(
             feature.name \cup (IF feature.category = NoCategory
                                THEN {} ELSE {feature.category}))
    ELSE MaxOf({0} \cup { score_text_patterns(feature.files[k]) :
                            k \in DOMAIN feature.files })

\* _is_similar_feature: the names share two words, or more than half of the
\* words of the shorter name
common_words == {"the", "a", "an", "and", "or", "for", "to", "of", "in", "on"}

is_similar_feature(feature, log) ==
    LET feature_words == feature.name \ common_words
        log_words == log.name \ common_words
        overlap == Cardinality(feature_words \cap log_words)
        smaller == IF Cardinality(feature_words) <= Cardinality(log_words)
                   THEN Cardinality(feature_words)
                   ELSE Cardinality(log_words)
    IN  IF feature_words = {} \/ log_words = {}
        THEN FALSE
        ELSE overlap >= 2 \/ 2 * overlap > smaller

\* _load_recent_logs(5): the log records write_feature_log has written, each
\* with the name and category of its feature.  The lists of the model are
\* shorter than five, so none is cut off.
load_recent_logs ==
    { [ name |-> feature_items[k].name,
        category |-> feature_category(feature_items[k]),
        status |-> feature_logs[feature_items[k].id] ] :
        k \in { j \in DOMAIN feature_items :
                  /\ feature_items[j].id \in DOMAIN feature_logs
                  /\ feature_logs[feature_items[j].id] # "none" } }

\* _calculate_failure_score over the recent log records
calculate_failure_score(feature, recent_logs) ==
    LET failed == { log \in recent_logs : log.status = "failed" }
        category_failures ==
            { log \in failed : log.category = feature.category }
        similar_failures ==
            { log \in failed : is_similar_feature(feature, log) }
    IN  IF similar_failures # {} THEN 20
        ELSE IF category_failures # {} THEN 15
        ELSE IF failed # {} THEN 10
        ELSE 0

\* _calculate_blast_radius
calculate_blast_radius(feature) ==
    LET total_affected == Cardinality(feature.dependencies)
                            + Cardinality(feature.affectedFeatures)
    IN  IF total_affected >= 5 THEN 25
        ELSE IF total_affected >= 3 THEN 15
        ELSE IF total_affected >= 1 THEN 10
        ELSE 0

Stats(decisions) ==
    LET count(d) == Cardinality({ k \in DOMAIN decisions :
                                     decisions[k].decision = d })
    IN  [ totalDecisions |-> Len(decisions),
          autoProceed |-> count("auto-proceed"),
          softCheckpoints |-> count("soft-checkpoint"),
          hardCheckpoints |-> count("hard-checkpoint") ]

\* mutant: the counts are taken before the new entry is appended
append_decision_StaleStats(log_data, entry) ==
    [ decisions |-> Append(log_data.decisions, entry),
      stats |-> Stats(log_data.decisions) ]

\* _save_decision, the ledger: append the entry, recompute the counts
append_decision(log_data, entry) ==
    [ decisions |-> Append(log_data.decisions, entry),
      stats |-> Stats(Append(log_data.decisions, entry)) ]

\* read_json_file(log_file, {"decisions": [], "stats": {}})
read_decisions_log(document) ==
    read_json_file(document, [ decisions |-> << >>, stats |-> Absent ])

\* mutant: the soft tier includes its upper threshold (31-70)
decision_type_InclusiveSoft(total_score) ==
    IF total_score <= AUTO_PROCEED_THRESHOLD THEN "auto-proceed"
    ELSE IF total_score <= SOFT_CHECKPOINT_THRESHOLD THEN "soft-checkpoint"
    ELSE "hard-checkpoint"

\* assess_risk: the decision of a total score
decision_type(total_score) ==
    IF total_score <= AUTO_PROCEED_THRESHOLD THEN "auto-proceed"
    ELSE IF total_score < SOFT_CHECKPOINT_THRESHOLD THEN "soft-checkpoint"
    ELSE "hard-checkpoint"

RiskFactors(file_count, file_type, recent_failures, blast_radius, total) ==
    [ file_count_score |-> file_count,
      file_type_score |-> file_type,
      recent_failures_score |-> recent_failures,
      blast_radius_score |-> blast_radius,
      total_score |-> total ]

\* subject is not a field of the code's record: it names the feature dict
\* the decision was made for (observer)
CheckpointDecision(feature_id, decision, risk_score, risk_factors, reason, subject) ==
    [ feature_id |-> feature_id,
      decision |-> decision,
      risk_score |-> risk_score,
      risk_factors |-> risk_factors,
      reason |-> reason,
      approved |-> FALSE,
      approved_at |-> NoTime,
      skipped |-> FALSE,
      subject |-> subject ]

\* the places inside assess_risk's try block where a statement may raise
AssessFailures == {"none", "scoring", "record", "ledger", "blackboard"}

\* the decision assess_risk computes for a feature
scored_decision(feature, recent_logs) ==
    LET file_count_score == calculate_file_count_score(feature)
        file_type_score == calculate_file_type_score(feature)
        recent_failures_score == calculate_failure_score(feature, recent_logs)
        blast_radius_score == calculate_blast_radius(feature)
        total_score == file_count_score + file_type_score
                         + recent_failures_score + blast_radius_score
        reason_parts ==
            (IF file_type_score > 0 THEN {"High-risk file types"} ELSE {})
            \cup (IF file_count_score > 10 THEN {"Multiple files"} ELSE {})
            \cup (IF recent_failures_score > 0 THEN {"Recent failures"} ELSE {})
            \cup (IF blast_radius_score > 10 THEN {"Wide impact"} ELSE {})
    IN  CheckpointDecision(
            IF feature.has_id THEN feature.id ELSE UnknownId,
            decision_type(total_score),
            total_score,
            RiskFactors(file_count_score, file_type_score,
                        recent_failures_score, blast_radius_score, total_score),
            [ kind |-> "scored",
              parts |-> IF reason_parts = {} THEN {"Low risk"} ELSE reason_parts ],
            feature.id)

\* the except branch of assess_risk
fallback_decision(feature, error) ==
    CheckpointDecision(
        IF feature.has_id THEN feature.id ELSE UnknownId,
        "soft-checkpoint",
        50,
        RiskFactors(0, 0, 0, 0, 50),
        [ kind |-> "Assessment error", error |-> error ],
        feature.id)

\* mutant: the decision is persisted outside the try block
assess_risk_result_SaveUnguarded(feature, recent_logs, fail) ==
    IF fail = "none"
    THEN scored_decision(feature, recent_logs)
    ELSE IF fail \in {"record", "ledger"}
         THEN [ raised |-> fail ]
         ELSE fallback_decision(feature, fail)

\* assess_risk: what the caller gets
assess_risk_result(feature, recent_logs, fail) ==
    IF fail = "none"
    THEN scored_decision(feature, recent_logs)
    ELSE fallback_decision(feature, fail)

\* mutant: the entry takes over the approval and skip of the record that
\* the feature already has
decision_entry_KeepsApproval(decision) ==
    LET old == read_json_file(decision_records[decision.feature_id], Absent)
    IN  [ featureId |-> decision.feature_id,
          decision |-> decision.decision,
          riskScore |-> decision.risk_score,
          approved |-> IF old = Absent THEN FALSE ELSE old.approved,
          skipped |-> IF old = Absent THEN FALSE ELSE old.skipped,
          subject |-> decision.subject ]

\* _save_decision: the ledger entry of a decision
decision_entry(decision) ==
    [ featureId |-> decision.feature_id,
      decision |-> decision.decision,
      riskScore |-> decision.risk_score,
      approved |-> decision.approved,
      skipped |-> decision.skipped,
      subject |-> decision.subject ]

\* assess_risk: score the feature, write its decision record, append to the
\* ledger, write the blackboard.  A statement that raises ends the try block
\* there; what was written before stays written.
assess_risk(feature, recent_logs, fail) ==
    LET decision == scored_decision(feature, recent_logs)
        entry == decision_entry(decision)
    IN  /\ assess_failure' = fail
        /\ assessment' = assess_risk_result(feature, recent_logs, fail)
        /\ decision_records' =
              IF fail \in {"scoring", "record"}
              THEN decision_records
              ELSE [decision_records EXCEPT ![decision.feature_id] = decision]
        /\ decisions_log' =
              IF fail \in {"none", "blackboard"}
              THEN append_decision(read_decisions_log(decisions_log), entry)
              ELSE decisions_log
        /\ blackboard' =
              IF fail = "none"
              THEN [ featureId |-> decision.feature_id,
                     decision |-> decision.decision,
                     riskScore |-> decision.risk_score,
                     reason |-> decision.reason ]
              ELSE blackboard

\* mutant: a missing record is created by the approval
mark_approved_CreatesRecord(feature_id) ==
    decision_records' =
        IF decision_records[feature_id] # Absent
        THEN [decision_records EXCEPT ![feature_id].approved = TRUE,
                                      ![feature_id].approved_at = clock]
        ELSE [decision_records EXCEPT
                ![feature_id] = [ approved |-> TRUE, approved_at |-> clock ]]

\* mark_approved: the record of feature_id, when there is one
mark_approved(feature_id) ==
    decision_records' =
        IF read_json_file(decision_records[feature_id], Absent) # Absent
        THEN [decision_records EXCEPT ![feature_id].approved = TRUE,
                                      ![feature_id].approved_at = clock]
        ELSE decision_records

\* mark_skipped: the record of feature_id, when there is one
mark_skipped(feature_id) ==
    decision_records' =
        IF read_json_file(decision_records[feature_id], Absent) # Absent
        THEN [decision_records EXCEPT ![feature_id].skipped = TRUE]
        ELSE decision_records

\* ------------------------------------------- the checkpoint engine on its own
Files(n, text) == [ k \in 1..n |-> text ]

\* a feature dict as the scoring reads it
ScoredFeature(id, has_id, name, files, dependencies, status) ==
    [ id |-> id, has_id |-> has_id, name |-> name, category |-> "a",
      files |-> files, dependencies |-> dependencies,
      affectedFeatures |-> {}, status |-> status ]

\* Features whose scores meet the two thresholds from both sides: 30 and 35
\* for feature 1, 65 and 70 for feature 2 (10 more after a recent failure).
AssessFeatures ==
    { ScoredFeature(1, TRUE, {"auth", "login"}, << >>, {}, "pending"),
      ScoredFeature(1, TRUE, {"test", "page"}, Files(11, {"test"}), {9},
                    "pending"),
      ScoredFeature(2, TRUE, {"auth", "api"}, Files(11, {"auth", "api"}),
                    {9}, "pending"),
      ScoredFeature(2, TRUE, {"auth", "api"}, Files(11, {"auth", "api"}),
                    {7, 8, 9}, "pending") }

\* an earlier feature of another category, whose log record may exist
LoggedFeature ==
    [ ScoredFeature(1, TRUE, {"signup", "form"}, << >>, {}, "failed")
        EXCEPT !.category = "b" ]

\* The engine is called on its own; the logs directory is empty or holds the
\* record of one failed feature.
AssessInit ==
    /\ feature_items = << LoggedFeature >>
    /\ feature_list_json = feature_items
    /\ iteration = 0
    /\ max_iterations = 1
    /\ pause_on_error = FALSE
    /\ paused = FALSE
    /\ errors = << >>
    /\ pc = "while"
    /\ current_feature = 0
    /\ checkpoint_decision = "none"
    /\ loaded_iteration = 0
    /\ completed_features = << >>
    /\ features_since_last_summary = 0
    /\ feature_logs \in { << "none" >>, << "failed" >> }
    /\ impact_calls = << >>
    /\ dispatch_order = << >>
    /\ initial_pending = 0
    /\ stop_requested = FALSE
    /\ summarize_calls = << >>
    /\ StoreInit
    /\ EnginesInit

\* decision = agent.assess_risk(feature)
Assess ==
    /\ Len(read_decisions_log(decisions_log).decisions) < MaxAssessments
    /\ \E feature \in AssessFeatures, fail \in AssessFailures :
          assess_risk(feature, load_recent_logs, fail)
    /\ UNCHANGED << loop_state, checkpoint_events, engine_files >>

\* agent.mark_approved(feature_id)
MarkApproved ==
    /\ \E feature_id \in RecordKeys : mark_approved(feature_id)
    /\ UNCHANGED << loop_state, decisions_log, blackboard, assessment,
                    assess_failure, checkpoint_events, engine_files >>

AssessNext ==
    \/ Assess
    \/ MarkApproved

AssessSpec == AssessInit /\ [][AssessNext]_vars

Ledger(document) == read_decisions_log(document).decisions

\* C16: assess_risk always returns a decision to its caller; when a
\* statement inside it raised (the scoring, the write of the decision record,
\* the ledger, the blackboard), the decision returned is soft-checkpoint with
\* score 50 and a reason that embeds the error.
C16_AssessNeverThrows ==
    assessment # Absent =>
        /\ "decision" \in DOMAIN assessment
        /\ assessment.decision \in Decisions
        /\ assess_failure # "none" =>
              /\ assessment.decision = "soft-checkpoint"
              /\ assessment.risk_score = 50
              /\ assessment.reason.kind = "Assessment error"
              /\ assessment.reason.error = assess_failure

\* the ledger write raised after the record of feature 2 was written as
\* hard-checkpoint; the caller got the default
C16_Witness ==
    /\ assess_failure = "ledger"
    /\ assessment # Absent
    /\ assessment.decision = "soft-checkpoint"
    /\ decision_records[2] # Absent
    /\ decision_records[2].decision = "hard-checkpoint"

\* C17: the risk score of every decision assess_risk returns is the sum of
\* its four sub-scores, and no sub-score is negative.
C17_ScoreIsSum ==
    assessment # Absent =>
        LET factors == assessment.risk_factors
        IN  /\ assessment.risk_score =
                    factors.file_count_score + factors.file_type_score
                      + factors.recent_failures_score
                      + factors.blast_radius_score
            /\ factors.file_count_score >= 0
            /\ factors.file_type_score >= 0
            /\ factors.recent_failures_score >= 0
            /\ factors.blast_radius_score >= 0

TierOf(score, decision) ==
    /\ score <= 30 => decision = "auto-proceed"
    /\ (31 <= score /\ score <= 69) => decision = "soft-checkpoint"
    /\ score >= 70 => decision = "hard-checkpoint"

CountOf(decisions, d) ==
    Cardinality({ k \in DOMAIN decisions : decisions[k].decision = d })

\* C19: every step keeps the ledger's earlier entries in place, and the
\* counts written with the ledger are those of its entries: totalDecisions
\* is their number, each per-type count is the number of entries of that
\* type, and the three per-type counts add up to totalDecisions.
C19_LedgerAppendOnly ==
    [][ LET old == Ledger(decisions_log)
            new == Ledger(decisions_log')
        IN  /\ Len(new) >= Len(old)
            /\ SubSeq(new, 1, Len(old)) = old
            /\ decisions_log' # Absent =>
                  LET stats == decisions_log'.stats
                  IN  /\ stats.totalDecisions = Len(new)
                      /\ stats.autoProceed = CountOf(new, "auto-proceed")
                      /\ stats.softCheckpoints = CountOf(new, "soft-checkpoint")
                      /\ stats.hardCheckpoints = CountOf(new, "hard-checkpoint")
                      /\ stats.autoProceed + stats.softCheckpoints
                            + stats.hardCheckpoints = stats.totalDecisions
      ]_vars

\* two entries of different types, the second one appended by a call whose
\* blackboard write raised afterwards
C19_Witness ==
    /\ Len(Ledger(decisions_log)) = 2
    /\ Ledger(decisions_log)[1].decision # Ledger(decisions_log)[2].decision
    /\ assess_failure = "blackboard"

\* ------------------------------------------- the loop with its checkpoints
\* The loop together with the files of the checkpoint engine, over features
\* that may come without an "id" key.  The id field of a feature without the
\* key is its place in the list until the loop assigns the generated id.
GeneratedId(it) == NumFeatures + it     \* f"feature-{self.state.iteration}"

\* a low-risk, a medium-risk and a high-risk feature (scores 0, 40 and 70
\* before recent failures), each with or without an id
CheckpointLists ==
    { [ i \in FeatureIx |->
          CASE risk[i] = "low" ->
                 ScoredFeature(i, has_id[i], {"test", "page"}, << >>, {},
                               "pending")
            [] risk[i] = "medium" ->
                 ScoredFeature(i, has_id[i], {"auth", "login"}, << >>, {9},
                               "pending")
            [] OTHER ->
                 ScoredFeature(i, has_id[i], {"auth", "api"},
                               Files(11, {"auth", "api"}), {7, 8, 9},
                               "pending") ] :
        risk \in [FeatureIx -> {"low", "medium", "high"}],
        has_id \in [FeatureIx -> BOOLEAN] }

CheckpointInit ==
    /\ feature_items \in CheckpointLists
    /\ feature_list_json = feature_items
    /\ iteration = 0
    /\ max_iterations = MaxIterations
    /\ pause_on_error = FALSE
    /\ paused = FALSE
    /\ errors = << >>
    /\ pc = "while"
    /\ current_feature = 0
    /\ checkpoint_decision = "none"
    /\ loaded_iteration = 0
    /\ completed_features = << >>
    /\ features_since_last_summary = 0
    /\ feature_logs = [ i \in 1..GeneratedId(MaxIterations) |-> "none" ]
    /\ impact_calls = << >>
    /\ dispatch_order = << >>
    /\ initial_pending = Len(Pending(feature_items))
    /\ stop_requested = FALSE
    /\ summarize_calls = << >>
    /\ StoreInit
    /\ EnginesInit

\* checkpoint_decision = self.checkpoint_agent.assess_risk(current_feature)
AssessRiskStored ==
    /\ pc = "checkpoint"
    /\ \E fail \in AssessFailures :
          assess_risk(feature_items[current_feature], load_recent_logs, fail)
    /\ checkpoint_decision' = assessment'.decision
    /\ pc' = "handle"
    /\ UNCHANGED << feature_items, feature_list_json, iteration, config,
                    paused, errors, current_feature, loaded_iteration,
                    summary_state, feature_logs, impact_calls, observers,
                    checkpoint_events, engine_files >>

\* json.dumps({"type": ..., "featureId": feature.get("id"), ...}); subject
\* names the feature dict (observer)
CheckpointEvent(decision, feature, subject) ==
    [ type |-> IF decision = "soft-checkpoint" THEN "soft" ELSE "hard",
      featureId |-> IF feature.has_id THEN feature.id ELSE NoneId,
      subject |-> subject ]

\* handle_checkpoint: nothing for auto-proceed; for the two checkpoint tiers
\* the event, then mark_approved(feature.get("id"))
handle_checkpoint_effects(decision, feature, subject) ==
    IF decision = "auto-proceed"
    THEN UNCHANGED << checkpoint_events, decision_records >>
    ELSE /\ checkpoint_events' =
               Append(checkpoint_events,
                      CheckpointEvent(decision, feature, subject))
         /\ mark_approved(IF feature.has_id THEN feature.id ELSE NoneId)

\* should_proceed = self.handle_checkpoint(...); then status in_progress,
\* current_feature["id"] = feature_id, save
HandleCheckpointStored ==
    /\ pc = "handle"
    /\ handle_checkpoint_effects(checkpoint_decision,
                                 feature_items[current_feature],
                                 current_feature)
    /\ IF ~ handle_checkpoint(checkpoint_decision)
       THEN /\ feature_items' =
                  [feature_items EXCEPT ![current_feature].status = "skipped"]
            /\ pc' = "while"
            /\ UNCHANGED dispatch_order
       ELSE /\ feature_items' =
                  [feature_items EXCEPT
                      ![current_feature].status = "in_progress",
                      ![current_feature].id =
                          IF feature_items[current_feature].has_id
                          THEN feature_items[current_feature].id
                          ELSE GeneratedId(iteration),
                      ![current_feature].has_id = TRUE]
            /\ dispatch_order' = Append(dispatch_order, current_feature)
            /\ pc' = "dispatch"
    /\ feature_list_json' = save_feature_list(feature_items')
    /\ UNCHANGED << iteration, config, paused, errors, current_feature,
                    checkpoint_decision, loaded_iteration, summary_state,
                    feature_logs, impact_calls, initial_pending,
                    stop_requested, summarize_calls, decisions_log,
                    blackboard, assessment, assess_failure, engine_files >>

\* mark_approved raises while rewriting the record it has read (no try in
\* mark_approved, handle_checkpoint or around the call in the loop): the
\* exception leaves run_implementation_phase
MarkApprovedRaise ==
    /\ pc = "handle"
    /\ checkpoint_decision \in {"soft-checkpoint", "hard-checkpoint"}
    /\ feature_items[current_feature].has_id
    /\ decision_records[feature_items[current_feature].id] # Absent
    /\ checkpoint_events' =
          Append(checkpoint_events,
                 CheckpointEvent(checkpoint_decision,
                                 feature_items[current_feature],
                                 current_feature))
    /\ pc' = "crashed"
    /\ UNCHANGED << feature_items, feature_list_json, iteration, config,
                    paused, errors, current_feature, checkpoint_decision,
                    loaded_iteration, summary_state, feature_logs,
                    impact_calls, observers, decision_records, decisions_log,
                    blackboard, assessment, assess_failure, engine_files >>

CheckpointNext ==
    \/ WhileTest
    \/ PausedTest
    \/ IncrementLoad
    \/ IncrementStore
    \/ SelectFeature
    \/ AssessRiskStored
    \/ HandleCheckpointStored
    \/ MarkApprovedRaise
    \/ DispatchReturn
    \/ DispatchRaise
    \/ WriteFeatureLog
    \/ SaveCompleted
    \/ PostDispatchRaise
    \/ ImpactHighRisk
    \/ ImpactCategory
    \/ SummarizeEvery
    \/ Except
    \/ IterationSleep
    \/ FinalSummarize

CheckpointSpec == CheckpointInit /\ [][CheckpointNext]_vars

\* the decision records written for the feature dict at place i of the list
RecordsOf(i) ==
    { k \in RecordKeys : /\ decision_records[k] # Absent
                         /\ decision_records[k].subject = i }

\* C14: no failure inside an engine call leaves the iteration: the loop
\* never ends by an exception, and a failure inside assess_risk gives the
\* loop the default decision, with which it goes on.
C14_EngineFailuresContained ==
    /\ pc # "crashed"
    /\ (pc = "handle" /\ assess_failure # "none") =>
          checkpoint_decision = "soft-checkpoint"

\* C15: every step out of the checkpoint handling dispatches the feature,
\* whatever the decision; no feature is ever skipped; and for a
\* soft-checkpoint or hard-checkpoint decision the step has emitted the
\* checkpoint event of the feature and has left every decision record of
\* the feature marked approved.
C15_AllDecisionsProceed ==
    [][ /\ \A i \in FeatureIx : feature_items'[i].status # "skipped"
        /\ (pc = "handle" /\ pc' # pc) =>
              /\ pc' = "dispatch"
              /\ feature_items'[current_feature].status = "in_progress"
              /\ checkpoint_decision \in {"soft-checkpoint", "hard-checkpoint"}
                    => /\ Len(checkpoint_events') = Len(checkpoint_events) + 1
                       /\ checkpoint_events'[Len(checkpoint_events')].subject
                             = current_feature
                       /\ \A k \in RecordKeys :
                             ( /\ decision_records'[k] # Absent
                               /\ decision_records'[k].subject = current_feature )
                                 => decision_records'[k].approved
      ]_vars

\* C20: a feature has its id when its risk assessment returns; every feature
\* with an entry in the ledger still has a decision record of its own; and
\* when a feature is dispatched after a soft-checkpoint or hard-checkpoint
\* decision, the approval mark is on a record of that feature.
C20_RecordPerFeature ==
    /\ pc = "handle" => feature_items[current_feature].has_id
    /\ \A k \in DOMAIN Ledger(decisions_log) :
          RecordsOf(Ledger(decisions_log)[k].subject) # {}
    /\ ( /\ pc = "dispatch"
         /\ checkpoint_decision \in {"soft-checkpoint", "hard-checkpoint"}
         /\ assess_failure \in {"none", "ledger", "blackboard"} )
       => \E k \in RecordsOf(current_feature) : decision_records[k].approved

\* ------------------------------------------- approval and skip of a record
\* the ledger _save_decision leaves after the records of features 1..k
RECURSIVE SavedLedger(_, _)
SavedLedger(records, k) ==
    IF k = 0
    THEN Absent
    ELSE IF records[k] = Absent
         THEN SavedLedger(records, k - 1)
         ELSE append_decision(read_decisions_log(SavedLedger(records, k - 1)),
                              decision_entry(records[k]))

\* the checkpoints directory after some of the features were assessed: no
\* record exists under None, and none under "unknown" as every feature has
\* an id
MarkRecords ==
    { records \in [ RecordKeys -> {Absent} \cup
                       { scored_decision(f, {}) : f \in AssessFeatures } ] :
        \A k \in RecordKeys :
           records[k] # Absent => records[k].feature_id = k }

MarkInit ==
    /\ feature_items = << LoggedFeature >>
    /\ feature_list_json = feature_items
    /\ iteration = 0
    /\ max_iterations = 1
    /\ pause_on_error = FALSE
    /\ paused = FALSE
    /\ errors = << >>
    /\ pc = "while"
    /\ current_feature = 0
    /\ checkpoint_decision = "none"
    /\ loaded_iteration = 0
    /\ completed_features = << >>
    /\ features_since_last_summary = 0
    /\ feature_logs = << "none" >>
    /\ impact_calls = << >>
    /\ dispatch_order = << >>
    /\ initial_pending = 0
    /\ stop_requested = FALSE
    /\ summarize_calls = << >>
    /\ decision_records \in MarkRecords
    /\ decisions_log = SavedLedger(decision_records, NumFeatures)
    /\ blackboard = Absent
    /\ assessment = Absent
    /\ assess_failure = "none"
    /\ checkpoint_events = << >>
    /\ EnginesInit

\* agent.mark_skipped(feature_id)
MarkSkipped ==
    /\ \E feature_id \in RecordKeys : mark_skipped(feature_id)
    /\ UNCHANGED << loop_state, decisions_log, blackboard, assessment,
                    assess_failure, checkpoint_events, engine_files >>

\* time passes between two calls
Tick ==
    /\ clock < MaxClock
    /\ clock' = clock + 1
    /\ UNCHANGED << loop_state, checkpoint_store, logs_dir, failure_score,
                    impact_files, impact_result, context_files,
                    context_result,
                    execution_state >>

MarkNext ==
    \/ MarkApproved
    \/ MarkSkipped
    \/ Tick

MarkSpec == MarkInit /\ [][MarkNext]_vars

\* C21: a step never creates a decision record and never changes the ledger
\* or the blackboard; it changes at most one record, and that record either
\* gets approved = TRUE with approved_at = now and nothing else touched, or
\* skipped = TRUE and nothing else touched; a flag that is set stays set,
\* so approving (skipping) a record again leaves both flags as they were.
C21_MarkFrame ==
    [][ /\ decisions_log' = decisions_log
        /\ blackboard' = blackboard
        /\ \A k \in RecordKeys :
              IF decision_records[k] = Absent
              THEN decision_records'[k] = Absent
              ELSE LET old == decision_records[k]
                       new == decision_records'[k]
                   IN  /\ \/ new = old
                          \/ new = [old EXCEPT !.approved = TRUE,
                                               !.approved_at = clock]
                          \/ new = [old EXCEPT !.skipped = TRUE]
                       /\ old.approved => new.approved
                       /\ old.skipped => new.skipped
        /\ Cardinality({ k \in RecordKeys :
                           decision_records'[k] # decision_records[k] }) <= 1
      ]_vars

\* the record of feature 1 was approved a second time, later than the
\* record of feature 2, and skipped; no record exists under None
C21_Witness ==
    /\ decision_records[NoneId] = Absent
    /\ decision_records[1] # Absent
    /\ decision_records[1].approved
    /\ decision_records[1].skipped
    /\ decision_records[1].approved_at = MaxClock
    /\ decision_records[2] # Absent
    /\ decision_records[2].approved
    /\ decision_records[2].approved_at = 1
    /\ ~decision_records[2].skipped

\* ------------------------------------------- the recent-failure score
RECENT_LOG_COUNT == 5       \* self._load_recent_logs(5)

\* mutant: every log file of the directory is loaded
recent_log_files_All(dir, count) ==
    { dir[k] : k \in { j \in DOMAIN dir : dir[j] # Unreadable } }

\* _load_recent_logs(count) on a directory whose files are listed oldest
\* modification first: the count newest files, those that cannot be read
\* left out
recent_log_files(dir, count) ==
    { dir[k] : k \in { j \in DOMAIN dir : /\ j > Len(dir) - count
                                          /\ dir[j] # Unreadable } }

LogRecord(name, category, status) ==
    [ name |-> name, category |-> category, status |-> status ]

\* what a log file may hold: a failure with a similar name, a failure of
\* category a, the failure of a feature without category (write_feature_log
\* records it as "uncategorized"), a success, or text that is not JSON
LogFiles ==
    { LogRecord({"user", "auth"}, "b", "failed"),
      LogRecord({"signup"}, "a", "failed"),
      LogRecord({"settings"}, "uncategorized", "failed"),
      LogRecord({"user", "auth"}, "a", "passed"),
      Unreadable }

\* the features scored: one of category a, one without category
FailureFeatures ==
    { ScoredFeature(1, TRUE, {"user", "auth", "flow"}, << >>, {}, "pending"),
      [ ScoredFeature(2, TRUE, {"dashboard"}, << >>, {}, "pending")
          EXCEPT !.category = NoCategory ] }

FailureInit ==
    /\ feature_items = << LoggedFeature >>
    /\ feature_list_json = feature_items
    /\ iteration = 0
    /\ max_iterations = 1
    /\ pause_on_error = FALSE
    /\ paused = FALSE
    /\ errors = << >>
    /\ pc = "while"
    /\ current_feature = 0
    /\ checkpoint_decision = "none"
    /\ loaded_iteration = 0
    /\ completed_features = << >>
    /\ features_since_last_summary = 0
    /\ feature_logs = << "none" >>
    /\ impact_calls = << >>
    /\ dispatch_order = << >>
    /\ initial_pending = 0
    /\ stop_requested = FALSE
    /\ summarize_calls = << >>
    /\ StoreInit
    /\ EnginesInit

\* a log file is written: it is the most recently modified one
WriteLog ==
    /\ Len(logs_dir) < MaxLogs
    /\ \E file \in LogFiles : logs_dir' = Append(logs_dir, file)
    /\ UNCHANGED << loop_state, checkpoint_store, clock, failure_score,
                    impact_files, impact_result, context_files,
                    context_result,
                    execution_state >>

\* score = agent._calculate_failure_score(feature)
FailureScore ==
    /\ \E feature \in FailureFeatures :
          failure_score' =
              [ feature |-> feature,
                score |-> calculate_failure_score(
                              feature,
                              recent_log_files(logs_dir, RECENT_LOG_COUNT)) ]
    /\ UNCHANGED << loop_state, checkpoint_store, clock, logs_dir,
                    impact_files, impact_result, context_files,
                    context_result,
                    execution_state >>

FailureNext ==
    \/ WriteLog
    \/ FailureScore

FailureSpec == FailureInit /\ [][FailureNext]_vars

\* the failed records among the five newest files of the directory
RecentFailures(dir) ==
    { dir[k] : k \in { j \in DOMAIN dir :
                          /\ j > Len(dir) - 5
                          /\ dir[j] # Unreadable
                          /\ dir[j].status = "failed" } }

\* C22: the score a call returns is 20 when one of the five newest log
\* records failed and is name-similar to the feature, else 15 when one of
\* them failed and has the feature's category, else 10 when one of them
\* failed, else 0; older records play no part.  A feature without a
\* category has no category to share.
C22_RecentFailureScore ==
    [][ failure_score' # failure_score =>
          LET feature == failure_score'.feature
              failed == RecentFailures(logs_dir)
          IN  failure_score'.score =
                 IF \E log \in failed : is_similar_feature(feature, log)
                 THEN 20
                 ELSE IF \E log \in failed :
                            /\ feature.category # NoCategory
                            /\ log.category = feature.category
                      THEN 15
                      ELSE IF failed # {} THEN 10 ELSE 0
      ]_vars

\* the oldest of six logs is a failure with a similar name, the five newer
\* ones hold no failure, and the score is 0
C22_Witness ==
    /\ Len(logs_dir) = 6
    /\ logs_dir[1] = LogRecord({"user", "auth"}, "b", "failed")
    /\ Unreadable \in { logs_dir[k] : k \in 2..6 }
    /\ failure_score # Absent
    /\ failure_score.feature.id = 1
    /\ failure_score.score = 0

\* ---------------------------------------------------- the impact engine
NO_ACTION_THRESHOLD == 30
MINOR_ADJUSTMENT_THRESHOLD == 60
MODERATE_REVISION_THRESHOLD == 80
API_BREAK_SEVERITY == 40
RESOURCE_COLLISION_SEVERITY == 20
ARCH_DRIFT_MAJOR_SEVERITY == 15
DEPENDENCY_INVALID_SEVERITY == 35
DIRECT_DEPENDENCY_SCORE == 25

EmptyId == -2       \* completed_feature.get("id", "")

\* feature.get("id", "")
id_or_empty(feature) == IF feature.has_id THEN feature.id ELSE EmptyId

\* feature.get("id")
id_or_none(feature) == IF feature.has_id THEN feature.id ELSE NoneId

\* feature.get("id", "unknown")
id_or_unknown(feature) == IF feature.has_id THEN feature.id ELSE UnknownId

\* a feature dict as the impact engine reads it; the spec text is the set of
\* its words and the list of its slash paths, a file path the set of its words
ImpactFeature(id, has_id, status, files, dependencies, words, paths) ==
    [ id |-> id, has_id |-> has_id, status |-> status, files |-> files,
      dependencies |-> dependencies,
      spec |-> [ words |-> words, paths |-> paths ] ]

\* completed_feature or {}
EmptyFeature == ImpactFeature(0, FALSE, "none", << >>, {}, {}, << >>)

\* keyword in text.lower(): a word holds every keyword that is a part of it
Holds(word) ==
    CASE word = "nosql" -> {"nosql", "sql"}
      [] word = "restful" -> {"restful", "rest"}
      [] word = "routes" -> {"routes", "route"}
      [] OTHER -> {word}

Contains(text, keyword) == \E word \in text : keyword \in Holds(word)

\* _extract_endpoints: the slash paths that start with /api or /auth
extract_endpoints(spec) ==
    SelectSeq(spec.paths, LAMBDA path : path.prefix \in {"/api", "/auth"})

\* _endpoint_potentially_changed: a file of the completed feature is a
\* route, api, endpoint or controller file
endpoint_potentially_changed(completed_feature, endpoint) ==
    \E k \in DOMAIN completed_feature.files :
       \E keyword \in {"route", "api", "endpoint", "controller"} :
          Contains(completed_feature.files[k], keyword)

\* _extract_arch_patterns; "none" where the dict has no entry
extract_arch_patterns(spec) ==
    [ api |-> IF Contains(spec.words, "graphql") THEN "graphql"
              ELSE IF Contains(spec.words, "rest")
                        \/ Contains(spec.words, "restful")
                   THEN "rest" ELSE "none",
      state |-> IF Contains(spec.words, "redux") THEN "redux"
                ELSE IF Contains(spec.words, "context")
                     THEN "context" ELSE "none",
      data |-> IF Contains(spec.words, "sql")
                    \/ Contains(spec.words, "postgres")
                    \/ Contains(spec.words, "mysql")
               THEN "sql"
               ELSE IF Contains(spec.words, "nosql")
                         \/ Contains(spec.words, "mongo")
                    THEN "nosql" ELSE "none",
      auth |-> IF Contains(spec.words, "oauth") THEN "oauth"
               ELSE IF Contains(spec.words, "jwt") THEN "jwt" ELSE "none" ]

ConflictDetail(conflict_type, severity, affected_files, completed_feature_id, evidence) ==
    [ conflict_type |-> conflict_type,
      severity |-> severity,
      affected_files |-> affected_files,
      completed_feature_id |-> completed_feature_id,
      evidence |-> evidence ]

\* _detect_api_breaks: one conflict for every endpoint of the future spec
detect_api_breaks(completed_feature, future_feature) ==
    LET changed ==
            SelectSeq(extract_endpoints(future_feature.spec),
                      LAMBDA ep :
                         endpoint_potentially_changed(completed_feature, ep))
    IN  [ k \in DOMAIN changed |->
            ConflictDetail("api-break", API_BREAK_SEVERITY,
                           Range(completed_feature.files),
                           id_or_unknown(completed_feature),
                           [ expectedEndpoint |-> changed[k] ]) ]

\* mutant: a pattern the completed feature does not name counts as a mismatch
detect_arch_drift_OneSided(completed_feature, future_feature) ==
    LET completed_patterns == extract_arch_patterns(completed_feature.spec)
        future_patterns == extract_arch_patterns(future_feature.spec)
        mismatches ==
            SelectSeq(<< "api", "state", "data", "auth" >>,
                      LAMBDA t : /\ future_patterns[t] # "none"
                                 /\ completed_patterns[t] # future_patterns[t])
    IN  [ k \in DOMAIN mismatches |->
            ConflictDetail("arch-drift", ARCH_DRIFT_MAJOR_SEVERITY,
                           Range(completed_feature.files),
                           id_or_unknown(completed_feature),
                           [ patternType |-> mismatches[k],
                             completedPattern |->
                                 completed_patterns[mismatches[k]],
                             futurePattern |->
                                 future_patterns[mismatches[k]] ]) ]

\* _detect_arch_drift: one conflict for every pattern type on which the two
\* specs differ
detect_arch_drift(completed_feature, future_feature) ==
    LET completed_patterns == extract_arch_patterns(completed_feature.spec)
        future_patterns == extract_arch_patterns(future_feature.spec)
        mismatches ==
            SelectSeq(<< "api", "state", "data", "auth" >>,
                      LAMBDA t : /\ completed_patterns[t] # "none"
                                 /\ future_patterns[t] # "none"
                                 /\ completed_patterns[t] # future_patterns[t])
    IN  [ k \in DOMAIN mismatches |->
            ConflictDetail("arch-drift", ARCH_DRIFT_MAJOR_SEVERITY,
                           Range(completed_feature.files),
                           id_or_unknown(completed_feature),
                           [ patternType |-> mismatches[k],
                             completedPattern |->
                                 completed_patterns[mismatches[k]],
                             futurePattern |->
                                 future_patterns[mismatches[k]] ]) ]

\* _detect_resource_conflicts
detect_resource_conflicts(completed_feature, future_feature) ==
    LET overlapping == Range(completed_feature.files)
                          \cap Range(future_feature.files)
    IN  IF overlapping # {}
        THEN << ConflictDetail("resource-collision",
                               RESOURCE_COLLISION_SEVERITY, overlapping,
                               id_or_unknown(completed_feature),
                               [ overlappingFiles |-> overlapping ]) >>
        ELSE << >>

\* mutant: the status of the completed feature is not looked at
detect_dependency_invalidation_AnyStatus(completed_feature, future_feature) ==
    IF id_or_empty(completed_feature) \notin future_feature.dependencies
    THEN << >>
    ELSE << ConflictDetail("dependency-invalid",
                           DEPENDENCY_INVALID_SEVERITY,
                           Range(completed_feature.files),
                           id_or_empty(completed_feature),
                           [ dependencyStatus |-> "failed",
                             dependencyId |->
                                 id_or_empty(completed_feature) ]) >>

\* _detect_dependency_invalidation
detect_dependency_invalidation(completed_feature, future_feature) ==
    IF id_or_empty(completed_feature) \notin future_feature.dependencies
    THEN << >>
    ELSE IF completed_feature.status = "failed"
         THEN << ConflictDetail("dependency-invalid",
                                DEPENDENCY_INVALID_SEVERITY,
                                Range(completed_feature.files),
                                id_or_empty(completed_feature),
                                [ dependencyStatus |-> "failed",
                                  dependencyId |->
                                      id_or_empty(completed_feature) ]) >>
         ELSE << >>

\* _detect_all_conflicts
detect_all_conflicts(completed_feature, future_feature) ==
    detect_api_breaks(completed_feature, future_feature)
      \o detect_arch_drift(completed_feature, future_feature)
      \o detect_resource_conflicts(completed_feature, future_feature)
      \o detect_dependency_invalidation(completed_feature, future_feature)

\* mutant: a dependent feature gets the transitive bonus
calculate_dependency_score_Transitive(completed_feature, future_feature) ==
    IF id_or_empty(completed_feature) \in future_feature.dependencies
    THEN 15
    ELSE 0

\* _calculate_dependency_score
calculate_dependency_score(completed_feature, future_feature) ==
    IF id_or_empty(completed_feature) \in future_feature.dependencies
    THEN DIRECT_DEPENDENCY_SCORE
    ELSE 0

\* mutant: the tiers end just below their thresholds
generate_recommendation_Exclusive(conflict_score) ==
    IF conflict_score < NO_ACTION_THRESHOLD THEN "no-action"
    ELSE IF conflict_score < MINOR_ADJUSTMENT_THRESHOLD
         THEN "minor-adjustment"
    ELSE IF conflict_score < MODERATE_REVISION_THRESHOLD
         THEN "moderate-revision"
    ELSE "major-respec"

\* _generate_recommendation
generate_recommendation(conflict_score) ==
    IF conflict_score <= NO_ACTION_THRESHOLD THEN "no-action"
    ELSE IF conflict_score <= MINOR_ADJUSTMENT_THRESHOLD
         THEN "minor-adjustment"
    ELSE IF conflict_score <= MODERATE_REVISION_THRESHOLD
         THEN "moderate-revision"
    ELSE "major-respec"

\* sum(c.severity for c in conflicts)
RECURSIVE SumSeverity(_)
SumSeverity(conflicts) ==
    IF conflicts = << >>
    THEN 0
    ELSE conflicts[1].severity + SumSeverity(Tail(conflicts))

OfType(conflicts, types) ==
    SelectSeq(conflicts, LAMBDA c : c.conflict_type \in types)

\* _generate_proposed_changes: an entry for every api-break and for every
\* resource-collision; a key without entry is the empty list here
generate_proposed_changes(feature, conflicts) ==
    [ endpoints |->
          LET breaks == OfType(conflicts, {"api-break"})
          IN  [ k \in DOMAIN breaks |->
                  [ old |-> breaks[k].evidence.expectedEndpoint,
                    action |-> "verify-or-update" ] ],
      files |->
          LET collisions == OfType(conflicts, {"resource-collision"})
          IN  [ k \in DOMAIN collisions |->
                  [ conflicting |-> collisions[k].affected_files,
                    action |-> "review-collision" ] ] ]

\* _generate_proposed_revision: a line for every conflict but those of
\* dependency invalidation, or the standard text
generate_proposed_revision(feature, conflicts) ==
    LET revision_parts ==
            OfType(conflicts, {"api-break", "arch-drift", "resource-collision"})
    IN  [ text |->
            IF revision_parts # << >>
            THEN [ k \in DOMAIN revision_parts |->
                     revision_parts[k].conflict_type ]
            ELSE << "Review and update spec based on conflicts" >> ]

\* _generate_respec_reason: the conflicts of severity 40 and more, or the
\* standard text
generate_respec_reason(feature, conflicts) ==
    LET reasons ==
            SelectSeq(conflicts, LAMBDA c : c.severity >= API_BREAK_SEVERITY)
    IN  [ text |->
            IF reasons # << >>
            THEN [ k \in DOMAIN reasons |-> reasons[k].conflict_type ]
            ELSE << "Multiple high-severity conflicts detected" >> ]

\* _build_dependency_chain
build_dependency_chain(completed_feature, future_feature) ==
    (IF completed_feature.has_id THEN << completed_feature.id >> ELSE << >>)
      \o (IF future_feature.has_id THEN << future_feature.id >> ELSE << >>)

\* assess_impact, the body of its loop: the FlaggedFeature of a future
\* feature with conflicts.  subject is not a field of the code's record: it
\* is the feature dict that was analysed (observer).
flag_feature(completed_feature, future_feature) ==
    LET conflicts == detect_all_conflicts(completed_feature, future_feature)
        conflict_score ==
            SumSeverity(conflicts)
              + calculate_dependency_score(completed_feature, future_feature)
        recommendation == generate_recommendation(conflict_score)
    IN  [ feature_id |-> id_or_unknown(future_feature),
          conflict_score |-> conflict_score,
          conflicts |-> conflicts,
          recommendation |-> recommendation,
          proposed_changes |->
              IF recommendation = "minor-adjustment"
              THEN generate_proposed_changes(future_feature, conflicts)
              ELSE Absent,
          proposed_revision |->
              IF recommendation = "moderate-revision"
              THEN generate_proposed_revision(future_feature, conflicts)
              ELSE Absent,
          respec_reason |->
              IF recommendation = "major-respec"
              THEN generate_respec_reason(future_feature, conflicts)
              ELSE Absent,
          dependency_chain |->
              build_dependency_chain(completed_feature, future_feature),
          subject |-> future_feature ]

\* the statements of assess_impact's try block that may raise
ImpactFailures == {"none", "detect", "save", "flags", "blackboard"}

\* mutant: the scope is not looked at
analyzed_features_AnyScope(scope, completed_feature, remaining_features) ==
    remaining_features

\* assess_impact: the features it analyses (completed_feature is
\* EmptyFeature when none was passed)
analyzed_features(scope, completed_feature, remaining_features) ==
    IF scope = "direct-dependencies" /\ completed_feature # EmptyFeature
    THEN SelectSeq(remaining_features,
                   LAMBDA f : id_or_empty(completed_feature) \in f.dependencies)
    ELSE remaining_features

\* assess_impact: the flagged features, in the order analysed
flagged_features(completed_feature, analyzed) ==
    LET with_conflicts ==
            SelectSeq(analyzed,
                      LAMBDA f : detect_all_conflicts(completed_feature, f)
                                    # << >>)
    IN  [ k \in DOMAIN with_conflicts |->
            flag_feature(completed_feature, with_conflicts[k]) ]

ImpactAssessment(trigger, trigger_feature_id, trigger_category, analyzed, flagged) ==
    [ trigger |-> trigger,
      trigger_feature_id |-> trigger_feature_id,
      trigger_category |-> trigger_category,
      analyzed_features |-> analyzed,
      flagged_features |-> flagged ]

\* the except branch of assess_impact
empty_assessment(trigger) ==
    ImpactAssessment(trigger, NoneId, NoCategory, 0, << >>)

\* _save_assessment: the name of the document
assessment_file(document) ==
    IF document.trigger = "high-risk-completion"
    THEN [ kind |-> "high-risk", feature |-> document.trigger_feature_id,
           category |-> NoCategory ]
    ELSE [ kind |-> "category", feature |-> NoneId,
           category |-> document.trigger_category ]

\* the ledger entry of a flagged feature
revision_flag(flagged) ==
    [ featureId |-> flagged.feature_id,
      status |-> "pending-revision",
      conflictScore |-> flagged.conflict_score,
      recommendation |-> flagged.recommendation,
      flaggedBy |-> IF flagged.dependency_chain # << >>
                    THEN flagged.dependency_chain[1]
                    ELSE UnknownId,
      resolution |-> "none" ]

FlagStats(flags) ==
    LET count(P(_)) == Cardinality({ k \in DOMAIN flags : P(flags[k]) })
    IN  [ totalFlagged |-> Len(flags),
          pendingRevision |->
              count(LAMBDA f : f.status = "pending-revision"),
          autoAdjusted |-> count(LAMBDA f : f.resolution = "auto-adjusted"),
          manuallyRevised |->
              count(LAMBDA f : f.resolution = "manually-revised"),
          majorRespecs |->
              count(LAMBDA f : f.recommendation = "major-respec") ]

\* read_json_file(flags_file, {"flaggedFeatures": [], "stats": {}})
read_revision_flags(document) ==
    read_json_file(document, [ flaggedFeatures |-> << >>, stats |-> Absent ])

\* mutant: the ledger is written anew from the flags of this assessment
update_revision_flags_Overwrite(document, flagged) ==
    LET flags == [ k \in DOMAIN flagged |-> revision_flag(flagged[k]) ]
    IN  [ flaggedFeatures |-> flags, stats |-> FlagStats(flags) ]

\* _update_revision_flags
update_revision_flags(document, flagged) ==
    LET flags == read_revision_flags(document).flaggedFeatures
                    \o [ k \in DOMAIN flagged |-> revision_flag(flagged[k]) ]
    IN  [ flaggedFeatures |-> flags, stats |-> FlagStats(flags) ]

\* mutant: the revision-flags ledger is updated outside the try block
impact_assessment_result_FlagsUnguarded(computed, fail) ==
    IF fail = "none"
    THEN computed
    ELSE IF fail = "flags"
         THEN [ raised |-> fail ]
         ELSE empty_assessment(computed.trigger)

\* assess_impact: what the caller gets
impact_assessment_result(computed, fail) ==
    IF fail = "none"
    THEN computed
    ELSE empty_assessment(computed.trigger)

\* assess_impact.  A statement that raises ends the try block there; what
\* was written before stays written.  calls counts the calls made (observer).
assess_impact(completed_feature, completed_category, trigger, scope, remaining_features, fail) ==
    LET analyzed ==
            analyzed_features(scope, completed_feature, remaining_features)
        flagged == flagged_features(completed_feature, analyzed)
        computed ==
            ImpactAssessment(trigger,
                             IF completed_feature # EmptyFeature
                             THEN id_or_none(completed_feature)
                             ELSE NoneId,
                             completed_category, Len(analyzed), flagged)
    IN  /\ impact_result' =
              [ assessment |-> impact_assessment_result(computed, fail),
                failure |-> fail,
                completed_feature |-> completed_feature,
                remaining_features |-> remaining_features,
                scope |-> scope,
                analyzed |-> analyzed,
                applied |-> << >>,
                handled |-> FALSE,
                calls |-> IF impact_result = Absent
                          THEN 1 ELSE impact_result.calls + 1 ]
        /\ impact_files' =
              [ assessments |->
                    IF fail \in {"detect", "save"}
                    THEN impact_files.assessments
                    ELSE (assessment_file(computed) :> computed)
                            @@ impact_files.assessments,
                revision_flags |->
                    IF fail \in {"none", "blackboard"}
                    THEN update_revision_flags(impact_files.revision_flags,
                                               flagged)
                    ELSE impact_files.revision_flags,
                blackboard |->
                    IF fail = "none"
                    THEN [ trigger |-> trigger,
                           analyzedFeatures |-> Len(analyzed),
                           flaggedFeatures |-> Len(flagged) ]
                    ELSE impact_files.blackboard ]

\* ------------------------------------------- the impact engine on its own
Path(prefix, rest) == [ prefix |-> prefix, rest |-> rest ]

\* the completed features: one that passed and touched a route file, its
\* failed counterpart
CompletedFeatures ==
    { ImpactFeature(1, TRUE, "passed",
                    << {"src", "api", "routes"}, {"shared"} >>, {},
                    {"rest", "jwt"}, << >>),
      ImpactFeature(1, TRUE, "failed", << {"shared"} >>, {}, {}, << >>) }

\* Lists of pending features whose scores meet the three thresholds from
\* both sides: 30 and 35, 60 and 65, 80 and 85.
RemainingLists ==
    { << ImpactFeature(2, TRUE, "pending", << {"shared"} >>, {1}, {}, << >>),
         ImpactFeature(3, TRUE, "pending", << >>, {},
                       {"graphql", "oauth"}, << >>) >>,
      << ImpactFeature(3, TRUE, "pending", << {"shared"} >>, {},
                       {"graphql"}, << >>),
         ImpactFeature(2, TRUE, "pending", << >>, {1}, {},
                       << Path("/api", "users"), Path("/home", "") >>) >>,
      << ImpactFeature(3, TRUE, "pending", << >>, {}, {},
                       << Path("/api", "a"), Path("/auth", "b") >>),
         ImpactFeature(0, FALSE, "pending", << {"shared"} >>, {1}, {},
                       << Path("/api", "a") >>) >>,
      << >> }

ImpactInit ==
    /\ feature_items = << LoggedFeature >>
    /\ feature_list_json = feature_items
    /\ iteration = 0
    /\ max_iterations = 1
    /\ pause_on_error = FALSE
    /\ paused = FALSE
    /\ errors = << >>
    /\ pc = "while"
    /\ current_feature = 0
    /\ checkpoint_decision = "none"
    /\ loaded_iteration = 0
    /\ completed_features = << >>
    /\ features_since_last_summary = 0
    /\ feature_logs = << "none" >>
    /\ impact_calls = << >>
    /\ dispatch_order = << >>
    /\ initial_pending = 0
    /\ stop_requested = FALSE
    /\ summarize_calls = << >>
    /\ StoreInit
    /\ clock = 1
    /\ execution_state = Absent
    /\ logs_dir = << >>
    /\ failure_score = Absent
    /\ impact_files = [ assessments |-> << >>,
                        revision_flags |-> Absent,
                        blackboard |-> Absent ]
    /\ impact_result = Absent
    /\ context_files = Absent
    /\ context_result = Absent

CallsMade == IF impact_result = Absent THEN 0 ELSE impact_result.calls

\* impact = agent.assess_impact(completed_feature=..., trigger=
\* "high-risk-completion", scope=..., remaining_features=...)
AssessImpactHighRisk ==
    /\ CallsMade < MaxImpactCalls
    /\ \E completed_feature \in CompletedFeatures,
          scope \in {"direct-dependencies", "all-remaining"},
          remaining_features \in RemainingLists,
          fail \in ImpactFailures :
          assess_impact(completed_feature, NoCategory, "high-risk-completion",
                        scope, remaining_features, fail)
    /\ UNCHANGED << loop_state, checkpoint_store, clock, logs_dir,
                    failure_score, context_files, context_result,
                    execution_state >>

\* impact = agent.assess_impact(completed_category=..., trigger=
\* "category-completion", scope="all-remaining", remaining_features=...)
AssessImpactCategory ==
    /\ CallsMade < MaxImpactCalls
    /\ \E remaining_features \in RemainingLists, fail \in ImpactFailures :
          assess_impact(EmptyFeature, "a", "category-completion",
                        "all-remaining", remaining_features, fail)
    /\ UNCHANGED << loop_state, checkpoint_store, clock, logs_dir,
                    failure_score, context_files, context_result,
                    execution_state >>

ImpactNext ==
    \/ AssessImpactHighRisk
    \/ AssessImpactCategory

ImpactSpec == ImpactInit /\ [][ImpactNext]_vars

\* every assessment the engine has returned last or has on disk
Assessments ==
    (IF impact_result = Absent THEN {} ELSE {impact_result.assessment})
      \cup { impact_files.assessments[name] :
               name \in DOMAIN impact_files.assessments }

\* the flagged features of those assessments
Flagged(document) ==
    { document.flagged_features[k] : k \in DOMAIN document.flagged_features }

\* C23: assess_impact always returns an assessment to its caller; when a
\* statement inside it raised (the conflict detection, the write of the
\* assessment document, of the revision-flags ledger, of the blackboard) the
\* assessment returned has zero analysed and zero flagged features.
C23_ImpactNeverThrows ==
    impact_result # Absent =>
        /\ "flagged_features" \in DOMAIN impact_result.assessment
        /\ impact_result.failure # "none" =>
              /\ impact_result.assessment.analyzed_features = 0
              /\ impact_result.assessment.flagged_features = << >>

\* the blackboard write raised after the assessment document and two ledger
\* entries were written; the caller got the empty assessment
C23_Witness ==
    /\ impact_result # Absent
    /\ impact_result.failure = "blackboard"
    /\ impact_result.calls = 1
    /\ impact_result.assessment.analyzed_features = 0
    /\ Len(read_revision_flags(impact_files.revision_flags).flaggedFeatures) = 2
    /\ impact_files.blackboard = Absent

\* C24: in every assessment returned or saved, the conflict score of a
\* flagged feature is the sum of the severities of its conflicts, plus 25
\* when the feature's dependencies hold the id of the completed feature.
C24_ConflictScore ==
    \A document \in Assessments :
       \A flagged \in Flagged(document) :
          flagged.conflict_score =
             SumSeverity(flagged.conflicts)
               + (IF document.trigger_feature_id
                        \in flagged.subject.dependencies
                  THEN 25 ELSE 0)

\* one assessment flags a dependent feature with three conflicts (40 + 20 +
\* 25 = 85) and a feature that is no dependent (40 + 40 = 80)
C24_Witness ==
    /\ impact_result # Absent
    /\ \E f \in Flagged(impact_result.assessment) :
          /\ Len(f.conflicts) = 2
          /\ 1 \in f.subject.dependencies
          /\ f.conflict_score = 85
    /\ \E f \in Flagged(impact_result.assessment) :
          /\ Len(f.conflicts) = 2
          /\ f.subject.dependencies = {}
          /\ f.conflict_score = 80

RecommendationOf(score) ==
    IF score <= 30 THEN "no-action"
    ELSE IF score <= 60 THEN "minor-adjustment"
    ELSE IF score <= 80 THEN "moderate-revision"
    ELSE "major-respec"

\* C25: the recommendation of every flagged feature, in the assessments and
\* in the revision-flags ledger, is no-action up to 30, minor-adjustment
\* from 31 to 60, moderate-revision from 61 to 80 and major-respec above;
\* proposed changes are set exactly for minor-adjustment, the proposed
\* revision exactly for moderate-revision, the respec reason exactly for
\* major-respec.
C25_Recommendation ==
    /\ \A document \in Assessments :
          \A flagged \in Flagged(document) :
             /\ flagged.recommendation =
                   RecommendationOf(flagged.conflict_score)
             /\ flagged.proposed_changes # Absent
                   <=> flagged.recommendation = "minor-adjustment"
             /\ flagged.proposed_revision # Absent
                   <=> flagged.recommendation = "moderate-revision"
             /\ flagged.respec_reason # Absent
                   <=> flagged.recommendation = "major-respec"
    /\ LET flags == read_revision_flags(impact_files.revision_flags).flaggedFeatures
       IN  \A k \in DOMAIN flags :
              flags[k].recommendation = RecommendationOf(flags[k].conflictScore)

\* the ledger holds a feature of each tier, with the scores 30, 80 and 85
\* among them
C25_Witness ==
    LET flags == read_revision_flags(impact_files.revision_flags).flaggedFeatures
        Has(score, recommendation) ==
            \E k \in DOMAIN flags :
               /\ flags[k].conflictScore = score
               /\ flags[k].recommendation = recommendation
    IN  /\ Has(30, "no-action")
        /\ Has(45, "minor-adjustment")
        /\ Has(80, "moderate-revision")
        /\ Has(85, "major-respec")

\* C26: for every feature the last call analysed, the detector returns one
\* conflict of type dependency-invalid and severity 35 when the feature
\* lists the id of the completed feature and that feature has failed, and
\* no conflict otherwise; the flagged features returned carry just that.
C26_DependencyInvalid ==
    impact_result # Absent =>
      LET completed == impact_result.completed_feature
          Invalidated(f) ==
              /\ completed.has_id
              /\ completed.id \in f.dependencies
              /\ completed.status = "failed"
      IN  /\ \A k \in DOMAIN impact_result.analyzed :
                LET f == impact_result.analyzed[k]
                    found == detect_dependency_invalidation(completed, f)
                IN  IF Invalidated(f)
                    THEN /\ Len(found) = 1
                         /\ found[1].conflict_type = "dependency-invalid"
                         /\ found[1].severity = 35
                    ELSE found = << >>
          /\ \A flagged \in Flagged(impact_result.assessment) :
                LET found == OfType(flagged.conflicts, {"dependency-invalid"})
                IN  IF Invalidated(flagged.subject)
                    THEN Len(found) = 1 /\ found[1].severity = 35
                    ELSE found = << >>

\* a failed feature was assessed against a dependent feature, flagged with
\* the conflict, and a feature that does not depend on it
C26_Witness ==
    /\ impact_result # Absent
    /\ impact_result.completed_feature.status = "failed"
    /\ Len(impact_result.analyzed) = 2
    /\ impact_result.analyzed[2].dependencies = {}
    /\ \E flagged \in Flagged(impact_result.assessment) :
          /\ 1 \in flagged.subject.dependencies
          /\ OfType(flagged.conflicts, {"dependency-invalid"}) # << >>

\* C27: every step keeps the ledger's earlier entries in place; a call that
\* returns its assessment has appended one entry for each flagged feature,
\* in the order flagged; every entry has status pending-revision; and the
\* counts written with the ledger are those of its entries.
C27_RevisionFlags ==
    [][ LET old == read_revision_flags(impact_files.revision_flags).flaggedFeatures
            new == read_revision_flags(impact_files'.revision_flags).flaggedFeatures
            returned == impact_result'.assessment.flagged_features
        IN  /\ Len(new) >= Len(old)
            /\ SubSeq(new, 1, Len(old)) = old
            /\ impact_result'.failure = "none" =>
                  /\ Len(new) = Len(old) + Len(returned)
                  /\ \A k \in DOMAIN returned :
                        /\ new[Len(old) + k].featureId = returned[k].feature_id
                        /\ new[Len(old) + k].conflictScore =
                              returned[k].conflict_score
                        /\ new[Len(old) + k].recommendation =
                              returned[k].recommendation
            /\ \A k \in DOMAIN new : new[k].status = "pending-revision"
            /\ impact_files'.revision_flags # Absent =>
                  LET stats == impact_files'.revision_flags.stats
                  IN  /\ stats.totalFlagged = Len(new)
                      /\ stats.pendingRevision =
                            Cardinality({ k \in DOMAIN new :
                                new[k].status = "pending-revision" })
                      /\ stats.majorRespecs =
                            Cardinality({ k \in DOMAIN new :
                                new[k].recommendation = "major-respec" })
      ]_vars

\* two assessments have left four entries, one of them a major respec
C27_Witness ==
    /\ impact_result # Absent
    /\ impact_result.calls = 2
    /\ impact_files.revision_flags # Absent
    /\ impact_files.revision_flags.stats.totalFlagged = 4
    /\ impact_files.revision_flags.stats.pendingRevision = 4
    /\ impact_files.revision_flags.stats.majorRespecs = 1

\* ---------------------------------------------------- the context engine
TOKEN_BUDGET == 2000        \* if token_count > 2000
CONTENT_CUT == 8000         \* content[:8000]
PREVIOUS_CUT == 500         \* current.content[:500]
CHARS_PER_TOKEN == 4        \* len(text) // 4
DECISIONS_KEPT == 20        \* [:20]
FAILURES_KEPT == 10         \* [:10]
DECISIONS_INJECTED == 5     \* decisions[:5]
FAILURES_INJECTED == 3      \* failures[:3]
DECISION_TOKENS == 50
FAILURE_TOKENS == 50
CONSTRAINT_TOKENS == 30

Min(a, b) == IF a <= b THEN a ELSE b

\* estimate_tokens; a text is modelled by its length
estimate_tokens(text) == text \div CHARS_PER_TOKEN

\* len(str(n))
Digits(n) == IF n < 10 THEN 1 ELSE IF n < 100 THEN 2 ELSE 3

\* seq[:count]
Prefix(seq, count) == SubSeq(seq, 1, Min(Len(seq), count))

RECURSIVE SumLengths(_)
SumLengths(lengths) ==
    IF lengths = << >>
    THEN 0
    ELSE lengths[1] + SumLengths(Tail(lengths))

\* "\n".join(summary_parts): the previous content cut to 500 characters
\* under its heading, the heading of the updates, one line for every log
summary_text(current, loaded_logs) ==
    LET previous ==
            IF current = Absent
            THEN << >>
            ELSE << 18 + Min(current.content, PREVIOUS_CUT) + 3 >>
        updates == << 20 + Digits(Len(loaded_logs)) + 10 >>
        lines == [ k \in DOMAIN loaded_logs |->
                     2 + loaded_logs[k].name + 2 + loaded_logs[k].status ]
        summary_parts == previous \o updates \o lines
    IN  SumLengths(summary_parts) + Len(summary_parts) - 1

RunningSummary(content, token_count, trigger, features_since_last_update, total_features_completed) ==
    [ content |-> content,
      token_count |-> token_count,
      trigger |-> trigger,
      features_since_last_update |-> features_since_last_update,
      total_features_completed |-> total_features_completed ]

\* mutant: the token budget is not enforced
create_summary_NoCap(current, loaded_logs, trigger, num_features) ==
    LET content == summary_text(current, loaded_logs)
    IN  RunningSummary(content, estimate_tokens(content), trigger,
                       num_features,
                       (IF current = Absent
                        THEN 0 ELSE current.total_features_completed)
                          + num_features)

\* _create_summary
create_summary(current, loaded_logs, trigger, num_features) ==
    LET content == summary_text(current, loaded_logs)
        token_count == estimate_tokens(content)
        over == token_count > TOKEN_BUDGET
    IN  RunningSummary(IF over THEN Min(content, CONTENT_CUT) ELSE content,
                       IF over THEN TOKEN_BUDGET ELSE token_count,
                       trigger,
                       num_features,
                       (IF current = Absent
                        THEN 0 ELSE current.total_features_completed)
                          + num_features)

\* load_running_summary: read_json_file returns None for a file that is
\* missing or is not JSON
load_running_summary(files) == read_json_file(files.summary, Absent)

\* load_decisions, load_failures, load_constraints: [] when the ledger does
\* not exist or cannot be parsed.  files.malformed names the ledgers whose
\* file holds text that is not JSON.
load_ledger(files, name) ==
    IF name \in files.malformed THEN << >> ELSE files[name]

\* load_feature_logs: the logs of the ids that have a log that can be parsed
load_feature_logs(log_files) ==
    SelectSeq(log_files, LAMBDA file : read_json_file(file, Absent) # Absent)

\* sorted(entries, key=timestamp, reverse=True); an entry is modelled by
\* its timestamp
RECURSIVE SortedNewestFirst(_)
SortedNewestFirst(entries) ==
    IF entries = << >>
    THEN << >>
    ELSE LET newest == CHOOSE k \in DOMAIN entries :
                          \A j \in DOMAIN entries :
                             \/ entries[j] < entries[k]
                             \/ (entries[j] = entries[k] /\ k <= j)
             others == [ j \in 1..(Len(entries) - 1) |->
                           IF j < newest THEN entries[j] ELSE entries[j + 1] ]
         IN  << entries[newest] >> \o SortedNewestFirst(others)

\* the statements of summarize's try block that may raise
SummarizeFailures == {"none", "load", "summary", "decisions", "blackboard"}

\* summarize(completed_features, trigger).  batch.ids is the number of ids
\* passed, batch.logs the log records found for them.  A statement that
\* raises ends the try block there; what was written before stays written.
\* last_total is the total written last and summaries counts the calls
\* (observers).
summarize(batch, trigger, fail) ==
    LET current == load_running_summary(context_files)
        loaded_logs == load_feature_logs(batch.logs)
        new_summary == create_summary(current, loaded_logs, trigger, batch.ids)
        all_decisions ==
            Prefix(SortedNewestFirst(load_ledger(context_files, "decisions")),
                   DECISIONS_KEPT)
        all_failures ==
            Prefix(SortedNewestFirst(load_ledger(context_files, "failures")),
                   FAILURES_KEPT)
        active_constraints ==
            SelectSeq(load_ledger(context_files, "constraints"),
                      LAMBDA expires_at :
                         expires_at = NoTime \/ expires_at > clock)
        summaries == IF context_result = Absent
                     THEN 1 ELSE context_result.summaries + 1
    IN  /\ context_result' =
              IF fail = "none"
              THEN [ call |-> "summarize", success |-> TRUE,
                     summary |-> new_summary,
                     raw_length |-> summary_text(current, loaded_logs),
                     summaries |-> summaries ]
              ELSE [ call |-> "summarize", success |-> FALSE,
                     error |-> fail, summaries |-> summaries ]
        /\ context_files' =
              IF fail \in {"load", "summary"}
              THEN context_files
              ELSE [ summary |-> new_summary,
                     decisions |-> IF fail = "decisions"
                                   THEN context_files.decisions
                                   ELSE all_decisions,
                     failures |-> IF fail = "decisions"
                                  THEN context_files.failures
                                  ELSE all_failures,
                     constraints |-> IF fail = "decisions"
                                     THEN context_files.constraints
                                     ELSE active_constraints,
                     malformed |-> IF fail = "decisions"
                                   THEN context_files.malformed
                                   ELSE {},
                     blackboard |->
                         IF fail = "none"
                         THEN [ tokenCount |-> new_summary.token_count,
                                totalFeaturesCompleted |->
                                    new_summary.total_features_completed ]
                         ELSE context_files.blackboard,
                     last_total |-> new_summary.total_features_completed ]

\* get_injection: the bundle, or the NameError of
\* [asdict(f) for d in relevant_failures] when that list is not empty
injection(files) ==
    LET summary == load_running_summary(files)
        constraints == load_ledger(files, "constraints")
        relevant_decisions ==
            Prefix(load_ledger(files, "decisions"), DECISIONS_INJECTED)
        relevant_failures ==
            Prefix(load_ledger(files, "failures"), FAILURES_INJECTED)
    IN  IF summary = Absent
        THEN [ summary |-> 0,
               decisions |-> << >>,
               failures |-> << >>,
               constraints |-> << >>,
               tokenCount |-> 0 ]
        ELSE IF relevant_failures # << >>
             THEN [ raised |-> "NameError" ]
             ELSE [ summary |-> summary.content,
                    decisions |-> relevant_decisions,
                    failures |-> << >>,
                    constraints |-> constraints,
                    tokenCount |->
                        summary.token_count
                          + Len(relevant_decisions) * DECISION_TOKENS
                          + Len(relevant_failures) * FAILURE_TOKENS
                          + Len(constraints) * CONSTRAINT_TOKENS ]

\* ------------------------------------------- the context engine on its own
LogOf(name, status) == [ name |-> name, status |-> status ]

\* The ids passed to summarize and the logs found for them: one feature,
\* two features of which one has no log, and a feature whose name makes the
\* text 8003 and 8004 characters long when no summary exists yet.
Batches ==
    { [ ids |-> 1, logs |-> << LogOf(12, 6) >> ],
      [ ids |-> 2, logs |-> << LogOf(12, 6) >> ],
      [ ids |-> 1, logs |-> << LogOf(7961, 6) >> ],
      [ ids |-> 1, logs |-> << LogOf(7962, 6) >> ] }

ContextInit ==
    /\ feature_items = << LoggedFeature >>
    /\ feature_list_json = feature_items
    /\ iteration = 0
    /\ max_iterations = 1
    /\ pause_on_error = FALSE
    /\ paused = FALSE
    /\ errors = << >>
    /\ pc = "while"
    /\ current_feature = 0
    /\ checkpoint_decision = "none"
    /\ loaded_iteration = 0
    /\ completed_features = << >>
    /\ features_since_last_summary = 0
    /\ feature_logs = << "none" >>
    /\ impact_calls = << >>
    /\ dispatch_order = << >>
    /\ initial_pending = 0
    /\ stop_requested = FALSE
    /\ summarize_calls = << >>
    /\ StoreInit
    /\ clock = 1
    /\ execution_state = Absent
    /\ logs_dir = << >>
    /\ failure_score = Absent
    /\ impact_files = Absent
    /\ impact_result = Absent
    /\ context_files = [ summary |-> Absent,
                         decisions |-> << >>,
                         failures |-> << >>,
                         constraints |-> << >>,
                         malformed |-> {},
                         blackboard |-> Absent,
                         last_total |-> 0 ]
    /\ context_result = Absent

ContextFrame ==
    UNCHANGED << loop_state, checkpoint_store, clock, logs_dir,
                 failure_score, impact_files, impact_result,
                 execution_state >>

SummariesMade == IF context_result = Absent THEN 0 ELSE context_result.summaries

\* result = agent.summarize(completed_features, trigger="feature_count")
Summarize ==
    /\ SummariesMade < MaxSummaries
    /\ \E batch \in Batches, fail \in SummarizeFailures :
          summarize(batch, "feature_count", fail)
    /\ ContextFrame

\* context = agent.get_injection(feature_id)
GetInjection ==
    /\ context_result' = [ call |-> "get_injection",
                           bundle |-> injection(context_files),
                           summaries |-> SummariesMade ]
    /\ UNCHANGED context_files
    /\ ContextFrame

\* agent.save_decisions(decisions): six decisions, oldest first
SaveDecisions ==
    /\ context_files' =
          [context_files EXCEPT !.decisions = << 1, 2, 3, 4, 5, 6 >>]
    /\ UNCHANGED context_result
    /\ ContextFrame

\* agent.save_failures(failures): one failure, or four
SaveFailures ==
    /\ \E failures \in { << 3 >>, << 4, 3, 2, 1 >> } :
          context_files' = [context_files EXCEPT !.failures = failures]
    /\ UNCHANGED context_result
    /\ ContextFrame

\* nine constraints that never expire
ManyConstraints == [i \in 1..9 |-> NoTime]

\* agent.save_constraints(constraints): one that never expires, one that
\* expires at time 1 and one at time 5; or nine that never expire
SaveConstraints ==
    /\ \E constraints \in { << NoTime, 1, 5 >>, ManyConstraints } :
          context_files' = [context_files EXCEPT !.constraints = constraints]
    /\ UNCHANGED context_result
    /\ ContextFrame

\* write_json_file rewrites running-summary.json in place (write_text): a
\* process that is killed during the write leaves a file that is not JSON
SummaryWriteInterrupted ==
    /\ context_files.summary \notin {Absent, Unreadable}
    /\ context_files' = [context_files EXCEPT !.summary = Unreadable]
    /\ UNCHANGED context_result
    /\ ContextFrame

ContextNext ==
    \/ Summarize
    \/ GetInjection
    \/ SaveDecisions
    \/ SaveFailures
    \/ SaveConstraints
    \/ SummaryWriteInterrupted
    \/ Tick

ContextSpec == ContextInit /\ [][ContextNext]_vars

Readable(summary) == summary \notin {Absent, Unreadable}

\* C28: a step that writes the running summary never writes a smaller
\* totalFeaturesCompleted than the one written before it, and writes the
\* total written before it plus the number of ids passed in, also when the
\* stored summary cannot be read.
C28_TotalMonotone ==
    [][ (/\ Readable(context_files'.summary)
         /\ context_result' # Absent
         /\ context_result'.call = "summarize"
         /\ context_result' # context_result)
        => /\ context_files'.summary.total_features_completed
                 >= context_files.last_total
           /\ context_result'.success =>
                 context_files'.summary.total_features_completed
                    = context_files.last_total
                        + context_files'.summary.features_since_last_update
      ]_vars

\* C29: the token count of the summary returned and of the summary stored
\* is at most 2000; it is the length of the text divided by 4 when that is
\* at most 2000, and else the text is cut to 8000 characters and the count
\* is 2000.
C29_TokenBudget ==
    /\ Readable(context_files.summary) =>
          context_files.summary.token_count <= 2000
    /\ (/\ context_result # Absent
        /\ context_result.call = "summarize"
        /\ context_result.success) =>
          LET summary == context_result.summary
              raw == context_result.raw_length
          IN  /\ summary.token_count <= 2000
              /\ IF raw \div 4 <= 2000
                 THEN /\ summary.content = raw
                      /\ summary.token_count = raw \div 4
                 ELSE /\ summary.content = 8000
                      /\ summary.token_count = 2000

\* a text of 8004 characters on top of a previous summary was cut to 8000
\* and reported as 2000 tokens
C29_Witness ==
    /\ context_result # Absent
    /\ context_result.call = "summarize"
    /\ context_result.success
    /\ context_result.summaries = 2
    /\ context_result.raw_length > 8004
    /\ context_result.summary.content = 8000
    /\ context_result.summary.token_count = 2000
    /\ context_files.summary = context_result.summary

\* C30: get_injection returns a bundle; without a summary it is the empty
\* bundle with token cost 0; with one it holds the summary text, the first
\* five decisions, the first three failures and all constraints, and its
\* token cost is the summary's token count plus 50 for each decision and
\* each failure returned and 30 for each constraint.
C30_Injection ==
    [][ (/\ context_result' # Absent
         /\ context_result'.call = "get_injection"
         /\ context_result' # context_result)
        => LET bundle == context_result'.bundle
               summary == context_files.summary
               decisions == Prefix(context_files.decisions, 5)
               failures == Prefix(context_files.failures, 3)
           IN  /\ "tokenCount" \in DOMAIN bundle
               /\ IF Readable(summary)
                  THEN /\ bundle.summary = summary.content
                       /\ bundle.decisions = decisions
                       /\ bundle.failures = failures
                       /\ bundle.constraints = context_files.constraints
                       /\ bundle.tokenCount =
                             summary.token_count + 50 * Len(decisions)
                               + 50 * Len(failures)
                               + 30 * Len(context_files.constraints)
                  ELSE /\ bundle.summary = 0
                       /\ bundle.decisions = << >>
                       /\ bundle.failures = << >>
                       /\ bundle.constraints = << >>
                       /\ bundle.tokenCount = 0
      ]_vars

\* the constraints that have not expired at the time `now`
ActiveAt(constraints, now) ==
    SelectSeq(constraints,
              LAMBDA expires_at : expires_at = NoTime \/ expires_at > now)

\* C31: when a summary exists, the constraints in the bundle get_injection
\* returns are the stored constraints that have not expired at the time of
\* the call.
C31_ActiveConstraints ==
    [][ (/\ context_result' # Absent
         /\ context_result'.call = "get_injection"
         /\ context_result' # context_result
         /\ Readable(context_files.summary)
         /\ "constraints" \in DOMAIN context_result'.bundle)
        => context_result'.bundle.constraints
              = ActiveAt(context_files.constraints, clock)
      ]_vars

\* C32: the tokenCount of every bundle get_injection returns is below 2500.
C32_InjectionBudget ==
    (/\ context_result # Absent
     /\ context_result.call = "get_injection"
     /\ "tokenCount" \in DOMAIN context_result.bundle)
    => context_result.bundle.tokenCount < 2500

\* ------------------------------------------------------- the State Store
\* execution-state.json is a JSON object: a function from its top-level keys
\* to their values.  A nested value is kept as the one number that tells
\* two of them apart.
EmptyState == [ key \in {} |-> 0 ]

\* read_blackboard: {} when the file is missing or cannot be parsed
read_blackboard(state_file) ==
    IF state_file \in {Absent, Unreadable} THEN EmptyState ELSE state_file

\* current.update(updates)
update(current, updates) ==
    [ key \in DOMAIN current \cup DOMAIN updates |->
         IF key \in DOMAIN updates THEN updates[key] ELSE current[key] ]

write_blackboard_Replace(updates) ==
    execution_state' = update(updates, [ lastUpdated |-> clock ])

\* write_blackboard: read, merge, stamp lastUpdated, write the whole document
write_blackboard(updates) ==
    execution_state' =
       update(update(read_blackboard(execution_state), updates),
              [ lastUpdated |-> clock ])

\* what assess_risk writes: the decision for a feature
CheckpointUpdates == { [ checkpointDecision |-> id ] : id \in 1..NumFeatures }

\* what assess_impact writes: the assessment with its number of flagged
\* features
ImpactUpdates == { [ impactAssessment |-> flagged ] : flagged \in 0..1 }

\* what summarize writes: the summary and its time, and the running total
ContextUpdates(now) ==
    { [ contextSummary |-> now,
        lastContextUpdate |-> now,
        totalFeaturesCompleted |-> total ] : total \in 1..NumFeatures }

\* what another component writes with set_state_value(key, value)
OtherUpdates == { [ exampleValue |-> value ] : value \in {41, 42} }

StoreUpdates(now) ==
    CheckpointUpdates \cup ImpactUpdates \cup ContextUpdates(now)
       \cup OtherUpdates

StoreFrame ==
    UNCHANGED << loop_state, checkpoint_store, clock, logs_dir,
                 failure_score, impact_files, impact_result, context_files,
                 context_result >>

StoreSpecInit ==
    /\ feature_items = << LoggedFeature >>
    /\ feature_list_json = feature_items
    /\ iteration = 0
    /\ max_iterations = 1
    /\ pause_on_error = FALSE
    /\ paused = FALSE
    /\ errors = << >>
    /\ pc = "while"
    /\ current_feature = 0
    /\ checkpoint_decision = "none"
    /\ loaded_iteration = 0
    /\ completed_features = << >>
    /\ features_since_last_summary = 0
    /\ feature_logs = << "none" >>
    /\ impact_calls = << >>
    /\ dispatch_order = << >>
    /\ initial_pending = 0
    /\ stop_requested = FALSE
    /\ summarize_calls = << >>
    /\ StoreInit
    /\ EnginesInit

\* checkpoint_agent.assess_risk: self.write_blackboard({"checkpointDecision": ...})
CheckpointWrite ==
    /\ \E updates \in CheckpointUpdates : write_blackboard(updates)
    /\ StoreFrame

\* impact_agent.assess_impact: self.write_blackboard({"impactAssessment": ...})
ImpactWrite ==
    /\ \E updates \in ImpactUpdates : write_blackboard(updates)
    /\ StoreFrame

\* context_agent.summarize: self.write_blackboard({"contextSummary": ..., ...})
ContextWrite ==
    /\ \E updates \in ContextUpdates(clock) : write_blackboard(updates)
    /\ StoreFrame

\* set_state_value(key, value) of another component
SetStateValue ==
    /\ \E updates \in OtherUpdates : write_blackboard(updates)
    /\ StoreFrame

\* state_file.write_text(...) empties the file before it writes: a write
\* that fails leaves a file that holds no JSON document
StateWriteInterrupted ==
    /\ execution_state \notin {Absent, Unreadable}
    /\ execution_state' = Unreadable
    /\ StoreFrame

StoreNext ==
    \/ CheckpointWrite
    \/ ImpactWrite
    \/ ContextWrite
    \/ SetStateValue
    \/ StateWriteInterrupted
    \/ Tick

StoreSpec == StoreSpecInit /\ [][StoreNext]_vars

\* C33: a step that writes the State Store leaves a document that holds the
\* keys of the updates with their new values, every other key of the
\* document that was read with its previous value, and lastUpdated with the
\* time of the write; so a write of one component never removes or alters
\* a key of another.
C33_ShallowMerge ==
    [][ (/\ execution_state' # execution_state
         /\ execution_state' # Unreadable)
        => LET old == read_blackboard(execution_state)
               new == execution_state'
           IN  \E updates \in StoreUpdates(clock) :
                  /\ DOMAIN new
                        = DOMAIN old \cup DOMAIN updates \cup {"lastUpdated"}
                  /\ \A key \in DOMAIN updates : new[key] = updates[key]
                  /\ \A key \in DOMAIN old \ (DOMAIN updates
                                                 \cup {"lastUpdated"}) :
                        new[key] = old[key]
                  /\ new.lastUpdated = clock
      ]_vars

\* at time 3 the document holds the keys of the checkpoint, impact and
\* context engines and of another component, the summary being the one
\* written at time 1
C33_Witness ==
    /\ execution_state \notin {Absent, Unreadable}
    /\ DOMAIN execution_state =
          { "checkpointDecision", "impactAssessment", "contextSummary",
            "lastContextUpdate", "totalFeaturesCompleted", "exampleValue",
            "lastUpdated" }
    /\ execution_state.contextSummary = 1
    /\ execution_state.exampleValue = 42
    /\ execution_state.lastUpdated = 3

\* ------------------------------------- documents that cannot be parsed
\* The engines are called once each on a project some of whose documents
\* hold text that is not JSON.
ReadFeature ==
    ScoredFeature(1, TRUE, {"user", "auth", "flow"}, << >>, {}, "pending")

ReadCompleted ==
    ImpactFeature(1, TRUE, "failed", << {"shared"} >>, {}, {}, << >>)

ReadRemaining ==
    << ImpactFeature(2, TRUE, "pending", << {"shared"} >>, {1}, {}, << >>) >>

\* the ids passed to summarize: two, the log of the second cannot be parsed
ReadBatch == [ ids |-> 2, logs |-> << LogOf(12, 6), Unreadable >> ]

\* the documents an earlier run has written
StoredRecord == scored_decision(ReadFeature, {})
StoredLedger ==
    append_decision(read_decisions_log(Absent), decision_entry(StoredRecord))
StoredFlags ==
    update_revision_flags(Absent,
                          flagged_features(ReadCompleted, ReadRemaining))
StoredSummary == create_summary(Absent, << LogOf(12, 6) >>, "feature_count", 1)
StoredState == [ exampleValue |-> 42, lastUpdated |-> 1 ]

ReadInit ==
    /\ feature_items = << LoggedFeature >>
    /\ feature_list_json = feature_items
    /\ iteration = 0
    /\ max_iterations = 1
    /\ pause_on_error = FALSE
    /\ paused = FALSE
    /\ errors = << >>
    /\ pc = "while"
    /\ current_feature = 0
    /\ checkpoint_decision = "none"
    /\ loaded_iteration = 0
    /\ completed_features = << >>
    /\ features_since_last_summary = 0
    /\ feature_logs = << "none" >>
    /\ impact_calls = << >>
    /\ dispatch_order = << >>
    /\ initial_pending = 0
    /\ stop_requested = FALSE
    /\ summarize_calls = << >>
    /\ \E record \in {StoredRecord, Unreadable} :
          decision_records =
             [ k \in RecordKeys |-> IF k = 1 THEN record ELSE Absent ]
    /\ decisions_log \in {StoredLedger, Unreadable}
    /\ blackboard = Absent
    /\ assessment = Absent
    /\ assess_failure = "none"
    /\ checkpoint_events = << >>
    /\ clock = 2
    /\ logs_dir \in { << LogRecord({"user", "auth"}, "b", "failed") >>,
                      << Unreadable >> }
    /\ failure_score = Absent
    /\ \E flags \in {StoredFlags, Unreadable} :
          impact_files = [ assessments |-> << >>,
                           revision_flags |-> flags,
                           blackboard |-> Absent ]
    /\ impact_result = Absent
    /\ \E summary \in {StoredSummary, Unreadable},
          failures \in { << >>, << 1 >> },
          malformed \in SUBSET {"decisions", "failures", "constraints"} :
          context_files = [ summary |-> summary,
                            decisions |-> << 2, 1 >>,
                            failures |-> failures,
                            constraints |-> << NoTime >>,
                            malformed |-> malformed,
                            blackboard |-> Absent,
                            last_total |-> 1 ]
    /\ context_result = Absent
    /\ execution_state \in {StoredState, Unreadable}

\* decision = agent.assess_risk(feature): no statement raises
ReadAssess ==
    /\ assessment = Absent
    /\ assess_risk(ReadFeature, recent_log_files(logs_dir, RECENT_LOG_COUNT),
                   "none")
    /\ UNCHANGED << loop_state, checkpoint_events, engine_files >>

\* impact = agent.assess_impact(...): no statement raises
ReadImpact ==
    /\ impact_result = Absent
    /\ assess_impact(ReadCompleted, NoCategory, "high-risk-completion",
                     "direct-dependencies", ReadRemaining, "none")
    /\ UNCHANGED << loop_state, checkpoint_store, clock, logs_dir,
                    failure_score, context_files, context_result,
                    execution_state >>

\* result = agent.summarize([...]): no statement raises
ReadSummarize ==
    /\ SummariesMade = 0
    /\ summarize(ReadBatch, "feature_count", "none")
    /\ ContextFrame

ReadNext ==
    \/ ReadAssess
    \/ MarkApproved
    \/ ReadImpact
    \/ ReadSummarize
    \/ GetInjection
    \/ CheckpointWrite

ReadSpec == ReadInit /\ [][ReadNext]_vars

\* a document that cannot be parsed, taken as a document that does not exist
AsAbsent(file) == IF file = Unreadable THEN Absent ELSE file

\* the context directory without the documents that cannot be parsed
ReadAsAbsent(files) ==
    LET ledger(name) == IF name \in files.malformed THEN << >> ELSE files[name]
    IN  [ summary |-> AsAbsent(files.summary),
          decisions |-> ledger("decisions"),
          failures |-> ledger("failures"),
          constraints |-> ledger("constraints"),
          malformed |-> {} ]

\* C34: an engine operation that reads a document that cannot be parsed does
\* what it does when the document does not exist: it returns its normal
\* result, and no error reaches its caller.
C34_MalformedIsAbsent ==
    [][ /\ assessment' # assessment =>
              /\ assessment' =
                    scored_decision(ReadFeature,
                                    { file \in Range(logs_dir) :
                                         AsAbsent(file) # Absent })
              /\ decisions_log' =
                    append_decision(
                       read_decisions_log(AsAbsent(decisions_log)),
                       decision_entry(assessment'))
        /\ (/\ decision_records' # decision_records
            /\ assessment' = assessment) =>
              \E k \in RecordKeys :
                 /\ AsAbsent(decision_records[k]) # Absent
                 /\ decision_records'[k].feature_id
                       = decision_records[k].feature_id
        /\ impact_result' # impact_result =>
              /\ impact_result'.assessment.flagged_features
                    = flagged_features(ReadCompleted, ReadRemaining)
              /\ impact_files'.revision_flags =
                    update_revision_flags(
                       AsAbsent(impact_files.revision_flags),
                       flagged_features(ReadCompleted, ReadRemaining))
        /\ (/\ context_result' # context_result
            /\ context_result'.call = "summarize") =>
              /\ context_result'.success
              /\ context_result'.summary =
                    create_summary(AsAbsent(context_files.summary),
                                   << LogOf(12, 6) >>, "feature_count", 2)
              /\ context_files'.summary = context_result'.summary
              /\ context_files'.failures =
                    IF "failures" \in context_files.malformed
                    THEN << >> ELSE context_files.failures
              /\ context_files'.malformed = {}
        /\ (/\ context_result' # context_result
            /\ context_result'.call = "get_injection"
            /\ \/ context_files.summary = Unreadable
               \/ context_files.malformed # {}) =>
              /\ "tokenCount" \in DOMAIN context_result'.bundle
              /\ context_result'.bundle =
                    injection(ReadAsAbsent(context_files))
        /\ execution_state' # execution_state =>
              \E updates \in CheckpointUpdates :
                 execution_state' =
                    update(update(read_blackboard(AsAbsent(execution_state)),
                                  updates),
                           [ lastUpdated |-> clock ])
      ]_vars

\* C35: an assessment made for a completed category, with no completed
\* feature, analyses every remaining feature and flags none; the documents
\* saved for it hold no flagged feature.
C35_CategoryFlagsNothing ==
    /\ (/\ impact_result # Absent
        /\ impact_result.assessment.trigger = "category-completion"
        /\ impact_result.failure = "none") =>
          /\ impact_result.assessment.analyzed_features
                = Len(impact_result.remaining_features)
          /\ impact_result.assessment.flagged_features = << >>
    /\ \A document \in Assessments :
          document.trigger = "category-completion" =>
             document.flagged_features = << >>

\* a category assessment after a high-risk one analysed two remaining
\* features, one with a shared file and a dependency, one with architecture
\* keywords, and flagged none
C35_Witness ==
    /\ impact_result # Absent
    /\ impact_result.calls = 2
    /\ impact_result.failure = "none"
    /\ impact_result.assessment.trigger = "category-completion"
    /\ impact_result.assessment.analyzed_features = 2
    /\ impact_result.assessment.flagged_features = << >>
    /\ \E k \in DOMAIN impact_result.remaining_features :
          /\ impact_result.remaining_features[k].dependencies # {}
          /\ impact_result.remaining_features[k].files # << >>
    /\ \E k \in DOMAIN impact_result.remaining_features :
          impact_result.remaining_features[k].spec.words # {}

\* C36: in an assessment made for a completed high-risk feature over its
\* direct dependents, every flagged feature has at least one conflict, each
\* of severity 15 or more, a conflict score of at least 40 and a
\* recommendation other than no-action.
C36_DependentsFlagged ==
    (/\ impact_result # Absent
     /\ impact_result.assessment.trigger = "high-risk-completion"
     /\ impact_result.scope = "direct-dependencies") =>
       \A flagged \in Flagged(impact_result.assessment) :
          /\ flagged.conflicts # << >>
          /\ \A k \in DOMAIN flagged.conflicts :
                flagged.conflicts[k].severity >= 15
          /\ flagged.conflict_score >= 40
          /\ flagged.recommendation # "no-action"

\* of two remaining features the one that depends on the completed feature
\* was analysed and flagged for a shared file: 20 + 25 = 45
C36_Witness ==
    /\ impact_result # Absent
    /\ impact_result.failure = "none"
    /\ impact_result.assessment.trigger = "high-risk-completion"
    /\ impact_result.scope = "direct-dependencies"
    /\ Len(impact_result.remaining_features) = 2
    /\ impact_result.assessment.analyzed_features = 1
    /\ \E flagged \in Flagged(impact_result.assessment) :
          /\ Len(flagged.conflicts) = 1
          /\ flagged.conflict_score = 45
          /\ flagged.recommendation = "minor-adjustment"

\* ------------------------------------- the orchestrator handles the result
\* RevisionSpec: assess_impact followed by handle_impact_results, which calls
\* apply_adjustment, apply_revision or apply_respec for each flagged feature.
\* applied lists the calls made and handled marks the result as handled
\* (observers).

\* mutant: the adjustment is recorded in the feature's ledger entries
apply_adjustment_Resolves(files, flagged) ==
    IF ~Readable(files.revision_flags)
    THEN files
    ELSE LET old == files.revision_flags.flaggedFeatures
             flags == [ k \in DOMAIN old |->
                          IF old[k].featureId = flagged.feature_id
                          THEN [ old[k] EXCEPT !.status = "resolved",
                                               !.resolution = "auto-adjusted" ]
                          ELSE old[k] ]
         IN  [ files EXCEPT !.revision_flags =
                   [ flaggedFeatures |-> flags, stats |-> FlagStats(flags) ] ]

\* apply_adjustment: emits progress and returns True
apply_adjustment(files, flagged) ==
    files

\* apply_revision: emits progress and returns True
apply_revision(files, flagged) ==
    files

\* apply_respec: emits progress and returns True
apply_respec(files, flagged) ==
    files

\* the engine call handle_impact_results makes for one flagged feature
apply_call(flagged) ==
    CASE flagged.recommendation = "minor-adjustment" -> "apply_adjustment"
      [] flagged.recommendation = "moderate-revision" -> "apply_revision"
      [] flagged.recommendation = "major-respec" -> "apply_respec"
      [] OTHER -> "none"

RECURSIVE handle_impact_results(_, _)
\* handle_impact_results: the files after the loop over flagged_features
handle_impact_results(files, flagged_list) ==
    IF flagged_list = << >>
    THEN files
    ELSE LET flagged == Head(flagged_list)
             after ==
                 CASE apply_call(flagged) = "apply_adjustment" ->
                          apply_adjustment(files, flagged)
                   [] apply_call(flagged) = "apply_revision" ->
                          apply_revision(files, flagged)
                   [] apply_call(flagged) = "apply_respec" ->
                          apply_respec(files, flagged)
                   [] OTHER -> files
         IN  handle_impact_results(after, Tail(flagged_list))

\* self.handle_impact_results(impact_results), once for each assessment
HandleImpactResults ==
    /\ impact_result # Absent
    /\ ~impact_result.handled
    /\ LET flagged_list == impact_result.assessment.flagged_features
           calls == [ k \in DOMAIN flagged_list |->
                        [ call |-> apply_call(flagged_list[k]),
                          feature_id |-> flagged_list[k].feature_id ] ]
       IN  /\ impact_files' =
                 handle_impact_results(impact_files, flagged_list)
           /\ impact_result' =
                 [ impact_result EXCEPT
                     !.handled = TRUE,
                     !.applied = SelectSeq(calls,
                                           LAMBDA c : c.call # "none") ]
    /\ UNCHANGED << loop_state, checkpoint_store, clock, logs_dir,
                    failure_score, context_files, context_result,
                    execution_state >>

\* Trigger 1 of the loop: assess_impact after a hard-checkpoint feature
RevisionAssessHighRisk ==
    /\ CallsMade < MaxRevisionCalls
    /\ AssessImpactHighRisk

\* Trigger 2 of the loop: assess_impact after a completed category
RevisionAssessCategory ==
    /\ CallsMade < MaxRevisionCalls
    /\ AssessImpactCategory

RevisionNext ==
    \/ RevisionAssessHighRisk
    \/ RevisionAssessCategory
    \/ HandleImpactResults

RevisionSpec == ImpactInit /\ [][RevisionNext]_vars

\* C37: no operation changes the status or resolution of an entry of the
\* revision-flags ledger, apply_adjustment, apply_revision and apply_respec
\* included: a handled result leaves the engine's files as they were, every
\* stored entry is pending-revision with no resolution, and the stored stats
\* have pendingRevision = totalFlagged and autoAdjusted = manuallyRevised = 0.
C37_FlagsStayPending ==
    [][ /\ (impact_result' # Absent /\ impact_result'.handled)
            => impact_files' = impact_files
        /\ Readable(impact_files'.revision_flags) =>
            LET ledger == impact_files'.revision_flags
            IN  /\ \A k \in DOMAIN ledger.flaggedFeatures :
                      /\ ledger.flaggedFeatures[k].status = "pending-revision"
                      /\ ledger.flaggedFeatures[k].resolution = "none"
                /\ ledger.stats.pendingRevision = ledger.stats.totalFlagged
                /\ ledger.stats.autoAdjusted = 0
                /\ ledger.stats.manuallyRevised = 0 ]_vars

\* an adjustment, a revision or a re-spec has been applied to a feature whose
\* entry is in a ledger of at least two entries
C37_Witness ==
    /\ impact_result # Absent
    /\ impact_result.handled
    /\ impact_result.applied # << >>
    /\ Readable(impact_files.revision_flags)
    /\ Len(impact_files.revision_flags.flaggedFeatures) >= 2
    /\ \E k \in DOMAIN impact_files.revision_flags.flaggedFeatures :
          impact_files.revision_flags.flaggedFeatures[k].featureId
              = impact_result.applied[1].feature_id

\* --------------------------------- summarization that fails and is retried
\* RetrySpec: the loop's bookkeeping of completed features together with the
\* context engine it calls.  Every feature is dispatched in turn; the
\* dispatch returns (the feature passed or failed, its log is written and its
\* id is appended to completed_features) or raises (nothing is appended).
RetryFeatures == 5      \* length of the feature list of RetrySpec

RetryList ==
    [ i \in 1..RetryFeatures |->
        [ id |-> i, category |-> NoCategory, dependencies |-> {},
          status |-> "pending" ] ]

RetryInit ==
    /\ feature_items = RetryList
    /\ feature_list_json = feature_items
    /\ iteration = 0
    /\ max_iterations = RetryFeatures + 1
    /\ pause_on_error = FALSE
    /\ paused = FALSE
    /\ errors = << >>
    /\ pc = "while"
    /\ current_feature = 0
    /\ checkpoint_decision = "none"
    /\ loaded_iteration = 0
    /\ completed_features = << >>
    /\ features_since_last_summary = 0
    /\ feature_logs = [ i \in 1..RetryFeatures |-> "none" ]
    /\ impact_calls = << >>
    /\ dispatch_order = << >>
    /\ initial_pending = RetryFeatures
    /\ stop_requested = FALSE
    /\ summarize_calls = << >>
    /\ StoreInit
    /\ clock = 1
    /\ execution_state = Absent
    /\ logs_dir = << >>
    /\ failure_score = Absent
    /\ impact_files = Absent
    /\ impact_result = Absent
    /\ context_files = [ summary |-> Absent,
                         decisions |-> << >>,
                         failures |-> << >>,
                         constraints |-> << >>,
                         malformed |-> {},
                         blackboard |-> Absent,
                         last_total |-> 0 ]
    /\ context_result = Absent

RetryFrame ==
    UNCHANGED << feature_list_json, max_iterations, pause_on_error, paused,
                 checkpoint_decision, loaded_iteration, impact_calls,
                 initial_pending, stop_requested, checkpoint_store, clock,
                 logs_dir, failure_score, impact_files, impact_result,
                 execution_state >>

\* one iteration up to the bookkeeping: the next pending feature is
\* dispatched; status, write_feature_log, completed_features.append(id),
\* features_since_last_summary += 1; or the except branch
RetryIteration ==
    /\ pc = "while"
    /\ \E id \in DOMAIN feature_items :
          /\ feature_items[id].status = "pending"
          /\ \A j \in 1..(id - 1) : feature_items[j].status # "pending"
          /\ iteration' = iteration + 1
          /\ current_feature' = id
          /\ dispatch_order' = Append(dispatch_order, id)
          /\ \E outcome \in {"passed", "failed", "raised"} :
                IF outcome = "raised"
                THEN /\ feature_items' =
                           [feature_items EXCEPT ![id].status = "failed"]
                     /\ errors' = Append(errors, id)
                     /\ UNCHANGED << feature_logs, summary_state >>
                ELSE /\ feature_items' =
                           [feature_items EXCEPT ![id].status = outcome]
                     /\ feature_logs' = [feature_logs EXCEPT ![id] = outcome]
                     /\ completed_features' = Append(completed_features, id)
                     /\ features_since_last_summary' =
                           features_since_last_summary + 1
                     /\ UNCHANGED errors
    /\ pc' = "summarize"
    /\ UNCHANGED << summarize_calls, context_files, context_result >>
    /\ RetryFrame

\* the ids passed to summarize and the logs load_feature_logs finds for them
BatchOf(ids) ==
    [ ids |-> Len(ids), logs |-> [ k \in DOMAIN ids |-> LogOf(12, 6) ] ]

\* trigger_context_summarization with the engine behind it: the engine's
\* summarize reports success exactly when none of its statements raised
summarize_and_reset(fail) ==
    IF completed_features = << >>
    THEN UNCHANGED << summary_state, summarize_calls, context_files,
                      context_result >>
    ELSE /\ summarize(BatchOf(completed_features), "feature_count", fail)
         /\ trigger_context_summarization(fail = "none")

\* if self.features_since_last_summary >= 5: trigger_context_summarization()
RetrySummarizeEvery ==
    /\ pc = "summarize"
    /\ IF features_since_last_summary >= SUMMARY_EVERY
       THEN \E fail \in SummarizeFailures : summarize_and_reset(fail)
       ELSE UNCHANGED << summary_state, summarize_calls, context_files,
                         context_result >>
    /\ pc' = "while"
    /\ UNCHANGED << feature_items, iteration, current_feature, errors,
                    dispatch_order, feature_logs >>
    /\ RetryFrame

\* after the loop: if self.completed_features: trigger_context_summarization()
RetryFinalSummarize ==
    /\ pc = "while"
    /\ Pending(feature_items) = << >>
    /\ \E fail \in SummarizeFailures : summarize_and_reset(fail)
    /\ pc' = "done"
    /\ UNCHANGED << feature_items, iteration, current_feature, errors,
                    dispatch_order, feature_logs >>
    /\ RetryFrame

RetryNext ==
    \/ RetryIteration
    \/ RetrySummarizeEvery
    \/ RetryFinalSummarize

RetrySpec == RetryInit /\ [][RetryNext]_vars

\* the ids appended to completed_features so far: the features with a log
CompletedIds == { id \in DOMAIN feature_logs : feature_logs[id] # "none" }

\* how many successful summarize calls were given the feature id
TimesSummarizedOk(id) ==
    Cardinality({ k \in DOMAIN summarize_calls :
                    /\ summarize_calls[k].success
                    /\ \E j \in DOMAIN summarize_calls[k].completed :
                          summarize_calls[k].completed[j] = id })

InList(id) ==
    \E j \in DOMAIN completed_features : completed_features[j] = id

\* a summarize call that reports failure leaves the list and the counter as
\* they were
FailureKeepsList ==
    (/\ Len(summarize_calls') = Len(summarize_calls) + 1
     /\ ~summarize_calls'[Len(summarize_calls')].success)
        => UNCHANGED summary_state

\* every completed id is still in the list or was in exactly one successful
\* summarize call
SummarizedOnce ==
    \A id \in CompletedIds :
        IF InList(id) THEN TimesSummarizedOk(id) = 0
                      ELSE TimesSummarizedOk(id) = 1

\* C38: a summarize call that reports failure leaves completed_features and
\* features_since_last_summary unchanged; every completed feature id is
\* either still in the list or was included in exactly one successful
\* summarize call; and the stored totalFeaturesCompleted never exceeds the
\* number of features completed.
C38_RetryCountsOnce ==
    [][ /\ FailureKeepsList
        /\ SummarizedOnce'
        /\ Readable(context_files'.summary) =>
              context_files'.summary.total_features_completed
                  <= Cardinality(CompletedIds') ]_vars

\* the first two parts of C38 on their own
C38_ListKept ==
    [][ FailureKeepsList /\ SummarizedOnce' ]_vars

\* ------------------------------------ approval, skip and a new assessment
\* ReassessSpec: the checkpoint engine called on its own with assess_risk,
\* mark_approved and mark_skipped in any order.
\* one feature for each of two ids
ReassessFeatures == { f \in AssessFeatures : f.dependencies = {9} }

\* decision = agent.assess_risk(feature)
ReassessRisk ==
    /\ Len(read_decisions_log(decisions_log).decisions) < MaxAssessments
    /\ \E feature \in ReassessFeatures, fail \in AssessFailures :
          assess_risk(feature, load_recent_logs, fail)
    /\ UNCHANGED << loop_state, checkpoint_events, engine_files >>

ReassessNext ==
    \/ ReassessRisk
    \/ MarkApproved
    \/ MarkSkipped

ReassessSpec == AssessInit /\ [][ReassessNext]_vars

\* the ledger entries written for the feature id
EntriesOf(document, id) ==
    { k \in DOMAIN Ledger(document) : Ledger(document)[k].featureId = id }

\* C39: mark_approved and mark_skipped change only the decision record: a
\* step that sets a record's approved or skipped leaves the ledger as it
\* was, and every ledger entry has approved and skipped unset whatever the
\* records say; a step that appends the ledger entry of a feature id that
\* already had a record leaves that record with approved, approved_at and
\* skipped unset and the ledger with one more entry of that id.
C39_LedgerKeepsNoApproval ==
    [][ /\ (\E k \in RecordKeys :
               /\ Readable(decision_records[k])
               /\ Readable(decision_records'[k])
               /\ \/ ~decision_records[k].approved
                       /\ decision_records'[k].approved
                  \/ ~decision_records[k].skipped
                       /\ decision_records'[k].skipped)
            => decisions_log' = decisions_log
        /\ \A j \in DOMAIN Ledger(decisions_log') :
              /\ ~Ledger(decisions_log')[j].approved
              /\ ~Ledger(decisions_log')[j].skipped
        /\ \A k \in RecordKeys :
              (/\ Readable(decision_records[k])
               /\ Len(Ledger(decisions_log')) = Len(Ledger(decisions_log)) + 1
               /\ Ledger(decisions_log')[Len(Ledger(decisions_log'))].featureId
                    = k)
              => /\ Readable(decision_records'[k])
                 /\ ~decision_records'[k].approved
                 /\ decision_records'[k].approved_at = NoTime
                 /\ ~decision_records'[k].skipped
                 /\ Cardinality(EntriesOf(decisions_log', k))
                      = Cardinality(EntriesOf(decisions_log, k)) + 1
      ]_vars

\* feature 1 was assessed twice and then approved and skipped: its record
\* says approved and skipped, its two ledger entries do not
C39_Witness ==
    /\ Readable(decision_records[1])
    /\ decision_records[1].approved
    /\ decision_records[1].skipped
    /\ Cardinality(EntriesOf(decisions_log, 1)) = 2

\* ------------------------------------------------------ the iteration limit
\* what C40 says of one step of the loop
IterationLimitStep ==
    /\ iteration' <= max_iterations
    /\ Len(dispatch_order') <= max_iterations
    /\ (pc = "store" /\ pc' = "select") => iteration' = iteration + 1
    /\ (iteration' # iteration /\ stop_requested' = stop_requested)
          => pc = "store"
    /\ pc = "idle" => iteration' = iteration
    /\ (pc' \in {"final", "done"} /\ Pending(feature_items') # << >>)
          => iteration' >= max_iterations
    /\ pc \in {"final", "done"} => feature_items' = feature_items

\* C40: the loop selects at most max_iterations features; the iteration
\* counter goes up by exactly one in each iteration that is not idle-paused
\* and by nothing else in the loop, never exceeds max_iterations, and a loop
\* that has ended with features still pending has ended on the limit and
\* leaves them pending.
C40_IterationLimit ==
    [][ IterationLimitStep ]_vars

\* the same for the runs in which stop() is never called
C40_WithoutStop ==
    [][ ~stop_requested' => IterationLimitStep ]_vars

====
